---- MODULE Spec2Model ----
(***************************************************************************)
(* Verification model of the resume customizer core (rinject):             *)
(*   - PointDistributor      (src/document_processor.py, round robin)      *)
(*   - PointDistributor      (src/processors/point_distributor.py, shuffle)*)
(*   - ProjectDetector       (src/document_processor.py)                   *)
(*   - DocumentProcessor     (src/document_processor.py, insertion)        *)
(* Python dicts are insertion-ordered: a dict is a sequence of             *)
(* [key, val] records with pairwise distinct keys.  Python list / project  *)
(* indices are 0-based; paragraph lists are TLA+ sequences, so paragraph   *)
(* index i of the code is element i+1 of the sequence.                     *)
(***************************************************************************)
EXTENDS Integers, Sequences, FiniteSets, TLC

VARIABLES
    \* ---- PointDistributor._calculate_round_robin_distribution ----
    tech_stacks,            \* input: ordered dict technology -> list of points
    num_projects,           \* input: len(top_projects)
    project_distributions,  \* [0..N-1 -> ordered dict technology -> list of points]
    project_points_set,     \* [0..N-1 -> set of point strings]
    next_project_idx,       \* rotating cursor
    point_pos,              \* number of (technology, point) pairs already walked
    dropped,                \* history: points skipped ("if not assigned: continue")
    \* ---- processors/point_distributor.py, one copy per run ----
    shuffle_pc,             \* [Runs -> "idle" | "flatten" | "assign" | "done"]
    all_points,             \* [Runs -> the flattened, shuffled list]
    shuffle_distribution,   \* [Runs -> [0..N-1 -> list of points]]
    shuffle_i,              \* [Runs -> index of the enumerate loop]
    \* ---- ProjectDetector.find_projects_and_responsibilities ----
    doc,                    \* doc.paragraphs: the paragraph texts read so far
    det,                    \* the locals of the method (see DetectorStart)
    det_pc,                 \* "idle" | "loop" | "done"
    \* ---- DocumentProcessor.process_document ----
    file_data,              \* input: file_content (paragraph texts), tech_stacks
    document,               \* doc.paragraphs of the loaded document
    projects_data,          \* what the detector returned
    distribution_result,    \* what distribute_points_to_projects returned
    sorted_projects,        \* the items of the distribution still to process
    paragraph_offset,       \* paragraphs added so far in this pass
    total_added,
    result,                 \* the returned dictionary
    proc_pc,                \* "idle" | "load" | "distribute" | "insert" | "done"
    point_outcomes,         \* history: how the insertion of each point so far went
    \* ---- find_projects_and_responsibilities called twice on one document ----
    rep_doc,                \* doc.paragraphs: the paragraph texts, as the calls leave them
    rep_det,                \* [Runs -> the locals of the call]
    rep_i,                  \* [Runs -> index of the paragraph loop]
    rep_pc,                 \* [Runs -> "idle" | "call" | "loop" | "done"]
    \* ---- BulletFormatter: get_bullet_formatting, then apply_bullet_formatting ----
    fmt_in,                 \* input: the source paragraph, the point, the fallback,
                            \*        the numbering part, the calls that raise
    fmt_formatting,         \* the local "formatting": <<>> is None, <<d>> a descriptor
    fmt_para,               \* the new paragraph: runs, style, numbering link
    fmt_pc,                 \* "idle" | "extract" | "try" | "except" | "returned" | "raised"
    \* ---- PointDistributor.distribute_points_to_projects, one call ----
    call_args,              \* input: projects, tech_stacks_data (a dict or a pair)
    call_result,            \* the returned dictionary
    call_pc,                \* "idle" | "call" | "done"
    \* ---- BulkResumeProcessor.process_resumes_bulk ----
    files_data,             \* input: the files, each [loadable, paragraphs, parsed]
    max_workers,            \* input: 0 is None, else the size of the pool
    bulk_docs,              \* the locals of the calls (doc, projects, ...), one slot per call
    bulk_pc,                \* per file: "queued" | "load" | "detect" | "distribute" |
                            \*           "insert" | "finished" | "collected"
    bulk_results,           \* per file: what its future holds
    processed_resumes,      \* the list of the results with success
    failed_resumes,         \* the list of the other results
    bulk_main,              \* "idle" | "submit" | "collect" | "returned" | "raised"
    \* ---- DocumentProcessor.add_points_to_project, one call ----
    add_doc,                \* argument doc: the paragraphs, modified in place
    add_project_info,       \* argument project_info
    add_result,             \* the locals formatting, marker_to_use, fallback_formatting
                            \* after line 1153, and the returned points_added
    add_pc                  \* "idle" | "call" | "done"

distVars == <<tech_stacks, num_projects, project_distributions,
              project_points_set, next_project_idx, point_pos, dropped>>

shuffleVars == <<shuffle_pc, all_points, shuffle_distribution, shuffle_i>>

detVars == <<doc, det, det_pc>>

procVars == <<file_data, document, projects_data, distribution_result,
              sorted_projects, paragraph_offset, total_added, result, proc_pc,
              point_outcomes>>

repVars == <<rep_doc, rep_det, rep_i, rep_pc>>

fmtVars == <<fmt_in, fmt_formatting, fmt_para, fmt_pc>>

callVars == <<call_args, call_result, call_pc>>

bulkVars == <<files_data, max_workers, bulk_docs, bulk_pc, bulk_results,
              processed_resumes, failed_resumes, bulk_main>>

addVars == <<add_doc, add_project_info, add_result, add_pc>>

vars == <<distVars, shuffleVars, detVars, procVars, repVars, fmtVars, callVars,
          bulkVars, addVars>>

(* what the actions of one component leave alone *)
notDist == <<shuffleVars, detVars, procVars, repVars, fmtVars, callVars,
    bulkVars, addVars>>
notShuffle == <<distVars, detVars, procVars, repVars, fmtVars, callVars,
    bulkVars, addVars>>
notDetect == <<distVars, shuffleVars, procVars, repVars, fmtVars, callVars,
    bulkVars, addVars>>
notProcess == <<distVars, shuffleVars, detVars, repVars, fmtVars, callVars,
    bulkVars, addVars>>
notRepeat == <<distVars, shuffleVars, detVars, procVars, fmtVars, callVars,
    bulkVars, addVars>>
notFormat == <<distVars, shuffleVars, detVars, procVars, repVars, callVars,
    bulkVars, addVars>>
notCall == <<distVars, shuffleVars, detVars, procVars, repVars, fmtVars,
    bulkVars, addVars>>
notBulk == <<distVars, shuffleVars, detVars, procVars, repVars, fmtVars, callVars,
    addVars>>
notAdd == <<distVars, shuffleVars, detVars, procVars, repVars, fmtVars, callVars,
    bulkVars>>

---------------------------------------------------------------------------
(* Bounds of the model and program constants *)

MaxPoints == 5          \* total number of input points over all technologies
MaxShufflePoints == 3   \* the same, for the two runs of the shuffling variant
MaxParas == 5           \* paragraphs of a document drawn from DocTexts
MaxProcessParas == 4    \* paragraphs of a document given to process_document
MaxRepeatParas == 3     \* paragraphs of a document the detector is run on twice
MaxFaultParas == 3      \* paragraphs of a document when insertions may raise
MaxRaising == 2         \* calls on the paragraph that raise in one run of the formatter
MaxProjects == 5        \* projects given to one call of distribute_points_to_projects
MaxPairPoints == 3      \* points of the pair (selected_points, tech_names)
MaxFiles == 2           \* files given to one call of process_resumes_bulk
MaxWorkers == 2         \* largest pool size asked for (0 stands for None)
MaxLeadParas == 2       \* paragraphs at the top of the document of one call
MaxEmptyParas == 5      \* empty paragraphs between them and the insertion point
MaxNearParas == 1       \* paragraphs after the empty ones
MaxTopProjects == 3     \* projects[:3]

Runs == {1, 2}

TechNames == <<"Python", "Java">>
PointTexts == {"p1", "p2", "j1"}

---------------------------------------------------------------------------
(* Generic helpers *)

Range(s) == {s[k] : k \in 1..Len(s)}

SeqsUpTo(S, n) == UNION {[1..k -> S] : k \in 0..n}

RECURSIVE SumSeq(_)
SumSeq(s) == IF s = <<>> THEN 0 ELSE Head(s) + SumSeq(Tail(s))

RECURSIVE Concat(_)
Concat(ss) == IF ss = <<>> THEN <<>> ELSE Head(ss) \o Concat(Tail(ss))

Count(x, s) == Cardinality({k \in 1..Len(s) : s[k] = x})

NoRepeat(s) == \A a, b \in 1..Len(s) : a # b => s[a] # s[b]

(* Python dict as an insertion-ordered sequence of [key, val] *)
DictKeys(d) == {d[k].key : k \in 1..Len(d)}
DictGet(d, key) == (CHOOSE k \in 1..Len(d) : d[k].key = key)
DictVal(d, key) == d[DictGet(d, key)].val
DictPut(d, key, val) ==
    IF key \in DictKeys(d)
    THEN [d EXCEPT ![DictGet(d, key)].val = val]
    ELSE Append(d, [key |-> key, val |-> val])
DictValues(d) == [k \in 1..Len(d) |-> d[k].val]

---------------------------------------------------------------------------
(* Text.  A paragraph text is a string; the module is written in ASCII, so  *)
(* the bullet glyphs of the code are written with one ASCII character each  *)
(* that occurs in no other role: none is a letter, a digit, white space or  *)
(* a word character, just like the glyph it stands for.                    *)

U2022 == "@"    \* U+2022 bullet
U25CF == "~"    \* U+25CF black circle
U25E6 == "^"    \* U+25E6 white bullet
U25AA == "&"    \* U+25AA black small square
U25AB == "$"    \* U+25AB white small square
U2023 == "%"    \* U+2023 triangular bullet

UpperLetters == "ABCDEFGHIJKLMNOPQRSTUVWXYZ"
LowerLetters == "abcdefghijklmnopqrstuvwxyz"
Digits == "0123456789"

Ch(s, k) == SubSeq(s, k, k)
CharIn(c, alphabet) == \E k \in 1..Len(alphabet) : Ch(alphabet, k) = c
IsSpace(c) == c \in {" ", "\t", "\n"}
Chars(alphabet) == {Ch(alphabet, k) : k \in 1..Len(alphabet)}
DigitChars == Chars(Digits)
UpperChars == Chars(UpperLetters)
LowerChars == Chars(LowerLetters)
IsDigit(c) == c \in DigitChars
IsUpper(c) == c \in UpperChars
IsLower(c) == c \in LowerChars
IsWordChar(c) == IsDigit(c) \/ IsUpper(c) \/ IsLower(c) \/ c = "_"

(* str.strip() *)
Strip(s) ==
    LET keep == {k \in 1..Len(s) : ~IsSpace(Ch(s, k))}
    IN IF keep = {} THEN ""
       ELSE SubSeq(s, CHOOSE a \in keep : \A b \in keep : a <= b,
                      CHOOSE a \in keep : \A b \in keep : b <= a)

(* str.lstrip(chars) *)
LStripChars(s, chars) ==
    LET keep == {k \in 1..Len(s) : ~CharIn(Ch(s, k), chars)}
    IN IF keep = {} THEN ""
       ELSE SubSeq(s, CHOOSE a \in keep : \A b \in keep : a <= b, Len(s))

(* The text made of F(s, k) for k = a..b, built by halving the range. *)
RECURSIVE MapChars(_, _, _, _)
MapChars(F(_, _), s, a, b) ==
    IF a > b THEN ""
    ELSE IF a = b THEN F(s, a)
    ELSE MapChars(F, s, a, (a + b) \div 2) \o MapChars(F, s, (a + b) \div 2 + 1, b)

(* str.lower() *)
LowerChar(c) ==
    IF IsUpper(c)
    THEN Ch(LowerLetters, CHOOSE k \in 1..Len(UpperLetters) : Ch(UpperLetters, k) = c)
    ELSE c
LowerAt(s, k) == LowerChar(Ch(s, k))
Lower(s) == MapChars(LowerAt, s, 1, Len(s))

(* str.startswith(prefix), "sub in text" *)
StartsWith(s, prefix) ==
    Len(s) >= Len(prefix) /\ SubSeq(s, 1, Len(prefix)) = prefix
Contains(s, sub) ==
    \E k \in 1..(Len(s) - Len(sub) + 1) : SubSeq(s, k, k + Len(sub) - 1) = sub

(* len(text.split()) *)
WordCount(s) ==
    Cardinality({k \in 1..Len(s) :
        ~IsSpace(Ch(s, k)) /\ (k = 1 \/ IsSpace(Ch(s, k - 1)))})

(* text.split(sep) for a one-character sep: the number of parts, and the
   part after the first separator up to the second                        *)
SplitCount(s, sep) == Cardinality({k \in 1..Len(s) : Ch(s, k) = sep}) + 1
SecondPart(s, sep) ==
    LET at == {k \in 1..Len(s) : Ch(s, k) = sep}
        first == CHOOSE a \in at : \A b \in at : a <= b
        rest == {k \in at : k > first}
    IN SubSeq(s, first + 1,
              IF rest = {} THEN Len(s)
              ELSE (CHOOSE a \in rest : \A b \in rest : a <= b) - 1)

(* the regular expression "\b" before s[a] and after s[b]: a word character
   on exactly one side, the ends of the text counting as non-word        *)
WordAt(s, k) == k >= 1 /\ k <= Len(s) /\ IsWordChar(Ch(s, k))
WordBoundaries(s, a, b) ==
    /\ WordAt(s, a - 1) # WordAt(s, a)
    /\ WordAt(s, b) # WordAt(s, b + 1)

AllDigits(s, a, b) == \A k \in a..b : IsDigit(Ch(s, k))

(* re.search of the words, each between two word boundaries *)
SearchWord(s, words) ==
    \E w \in words : \E k \in 1..(Len(s) - Len(w) + 1) :
        /\ SubSeq(s, k, k + Len(w) - 1) = w
        /\ WordBoundaries(s, k, k + Len(w) - 1)

(* re.search of four digits between two word boundaries *)
SearchYear(s) ==
    \E k \in 1..(Len(s) - 3) : AllDigits(s, k, k + 3) /\ WordBoundaries(s, k, k + 3)

(* re.search of d{1,2}/d{1,2}/d{2,4} between two word boundaries *)
SearchDate(s) ==
    \E k \in 1..Len(s) : \E d \in 1..2 : \E m \in 1..2 : \E y \in 2..4 :
        LET e == k + d + m + y + 1
        IN /\ e <= Len(s)
           /\ AllDigits(s, k, k + d - 1)
           /\ Ch(s, k + d) = "/"
           /\ AllDigits(s, k + d + 1, k + d + m)
           /\ Ch(s, k + d + m + 1) = "/"
           /\ AllDigits(s, k + d + m + 2, e)
           /\ WordBoundaries(s, k, e)

(* re.match of one or more digits and a dot at the start *)
MatchNumbered(s) ==
    \E n \in 1..(Len(s) - 1) : AllDigits(s, 1, n) /\ Ch(s, n + 1) = "."

(* re.sub: drop every character that is not a-z or a space *)
KeepLowerAndSpaceAt(s, k) ==
    IF IsLower(Ch(s, k)) \/ Ch(s, k) = " " THEN Ch(s, k) ELSE ""
KeepLowerAndSpace(s) == MapChars(KeepLowerAndSpaceAt, s, 1, Len(s))

(* re.sub: each run of white space becomes one space *)
CollapseSpacesAt(s, k) ==
    IF IsSpace(Ch(s, k))
    THEN IF k < Len(s) /\ IsSpace(Ch(s, k + 1)) THEN "" ELSE " "
    ELSE Ch(s, k)
CollapseSpaces(s) == MapChars(CollapseSpacesAt, s, 1, Len(s))

(* str.isupper(): a cased character, and no lower-case one *)
IsUpperText(s) ==
    /\ \E k \in 1..Len(s) : IsUpper(Ch(s, k))
    /\ \A k \in 1..Len(s) : ~IsLower(Ch(s, k))

(* re.match: only A-Z and white space, at least one character *)
MatchCapsAndSpace(s) ==
    /\ Len(s) >= 1
    /\ \A k \in 1..Len(s) : IsUpper(Ch(s, k)) \/ IsSpace(Ch(s, k))

---------------------------------------------------------------------------
(* PointDistributor._calculate_round_robin_distribution                    *)

(* "for tech_name, points in tech_stacks.items(): for point in points":    *)
(* the walk order, as a list of [tech, point].                             *)
RECURSIVE FlatPoints(_)
FlatPoints(ts) ==
    IF ts = <<>> THEN <<>>
    ELSE [k \in 1..Len(Head(ts).val) |->
             [tech |-> Head(ts).key, point |-> Head(ts).val[k]]]
         \o FlatPoints(Tail(ts))

(* Variant of the probe loop without the duplicate guard
   "if point not in project_points_set[next_project_idx]".                 *)
ProbeNoGuard(sets, idx, tries, point, n) ==
    [assigned |-> TRUE, project |-> idx, next |-> (idx + 1) % n]

(* Variant of the probe loop that tries one project too few:
   "for _ in range(num_projects - 1)".                                     *)
RECURSIVE ProbeOneShort(_, _, _, _, _)
ProbeOneShort(sets, idx, tries, point, n) ==
    IF tries <= 1
    THEN [assigned |-> FALSE, project |-> -1, next |-> idx]
    ELSE IF point \notin sets[idx]
         THEN [assigned |-> TRUE, project |-> idx, next |-> (idx + 1) % n]
         ELSE ProbeOneShort(sets, (idx + 1) % n, tries - 1, point, n)

(* Variant of the probe loop that leaves the cursor on the project it
   assigned to, without "next_project_idx = (next_project_idx + 1) % n".   *)
RECURSIVE ProbeCursorStays(_, _, _, _, _)
ProbeCursorStays(sets, idx, tries, point, n) ==
    IF tries = 0
    THEN [assigned |-> FALSE, project |-> -1, next |-> idx]
    ELSE IF point \notin sets[idx]
         THEN [assigned |-> TRUE, project |-> idx, next |-> idx]
         ELSE ProbeCursorStays(sets, (idx + 1) % n, tries - 1, point, n)

(* "for _ in range(num_projects)": probe from idx, at most tries times.    *)
(* Returns whether the point was assigned, to which project, and the       *)
(* cursor after the loop.                                                  *)
RECURSIVE Probe(_, _, _, _, _)
Probe(sets, idx, tries, point, n) ==
    IF tries = 0
    THEN [assigned |-> FALSE, project |-> -1, next |-> idx]
    ELSE IF point \notin sets[idx]
         THEN [assigned |-> TRUE, project |-> idx, next |-> (idx + 1) % n]
         ELSE Probe(sets, (idx + 1) % n, tries - 1, point, n)

(* "project_distributions[idx][tech_name].append(point)"                   *)
AppendPoint(dist, tech, point) ==
    IF tech \in DictKeys(dist)
    THEN DictPut(dist, tech, Append(DictVal(dist, tech), point))
    ELSE DictPut(dist, tech, <<point>>)

(* Every ordered dict with the keys TechNames[1..n], n = 1 or 2, whose lists *)
(* hold at most max points in all: a flat list cut in two.           *)
TechStackInputs(max) ==
    LET flats == SeqsUpTo(PointTexts, max)
    IN {<<[key |-> TechNames[1], val |-> f]>> : f \in flats}
       \cup {<<[key |-> TechNames[1], val |-> SubSeq(fc[1], 1, fc[2])],
               [key |-> TechNames[2], val |-> SubSeq(fc[1], fc[2] + 1, Len(fc[1]))]>> :
                fc \in {x \in flats \X (0..max) : x[2] <= Len(x[1])}}

(* The state of the components a specification does not run. *)
DetectIdle ==
    /\ doc = <<>>
    /\ det = <<>>
    /\ det_pc = "idle"

AddIdle ==
    /\ add_doc = <<>>
    /\ add_project_info = <<>>
    /\ add_result = <<>>
    /\ add_pc = "idle"

BulkIdle ==
    /\ files_data = <<>>
    /\ max_workers = 0
    /\ bulk_docs = <<>>
    /\ bulk_pc = <<>>
    /\ bulk_results = <<>>
    /\ processed_resumes = <<>>
    /\ failed_resumes = <<>>
    /\ bulk_main = "idle"

CallIdle ==
    /\ call_args = <<>>
    /\ call_result = <<>>
    /\ call_pc = "idle"

FormatIdle ==
    /\ fmt_in = <<>>
    /\ fmt_formatting = <<>>
    /\ fmt_para = <<>>
    /\ fmt_pc = "idle"

RepeatIdle ==
    /\ rep_doc = <<>>
    /\ rep_det = [r \in Runs |-> <<>>]
    /\ rep_i = [r \in Runs |-> 0]
    /\ rep_pc = [r \in Runs |-> "idle"]

ProcessIdle ==
    /\ file_data = <<>>
    /\ document = <<>>
    /\ projects_data = <<>>
    /\ distribution_result = <<>>
    /\ sorted_projects = <<>>
    /\ paragraph_offset = 0
    /\ total_added = 0
    /\ result = <<>>
    /\ proc_pc = "idle"
    /\ point_outcomes = <<>>

DistIdle ==
    /\ num_projects = 1
    /\ tech_stacks = <<>>
    /\ project_distributions = <<>>
    /\ project_points_set = <<>>
    /\ next_project_idx = 0
    /\ point_pos = 0
    /\ dropped = <<>>

ShuffleIdle ==
    /\ shuffle_pc = [r \in Runs |-> "idle"]
    /\ all_points = [r \in Runs |-> <<>>]
    /\ shuffle_distribution = [r \in Runs |-> <<>>]
    /\ shuffle_i = [r \in Runs |-> 0]

RoundRobinStart ==
    /\ project_distributions = [p \in 0..(num_projects - 1) |-> <<>>]
    /\ project_points_set = [p \in 0..(num_projects - 1) |-> {}]
    /\ next_project_idx = 0
    /\ point_pos = 0
    /\ dropped = <<>>

InitDist ==
    /\ num_projects \in 1..MaxTopProjects
    /\ tech_stacks \in TechStackInputs(MaxPoints)
    /\ RoundRobinStart
    /\ ShuffleIdle
    /\ DetectIdle
    /\ ProcessIdle
    /\ RepeatIdle
    /\ FormatIdle
    /\ CallIdle
    /\ BulkIdle
    /\ AddIdle

(* One iteration of the inner "for point in points" loop.                  *)
DistributePoint ==
    /\ point_pos < Len(FlatPoints(tech_stacks))
    /\ LET cur == FlatPoints(tech_stacks)[point_pos + 1]
           r   == Probe(project_points_set, next_project_idx, num_projects,
                        cur.point, num_projects)
       IN /\ next_project_idx' = r.next
          /\ IF r.assigned
             THEN /\ project_distributions' =
                        [project_distributions EXCEPT ![r.project] =
                            AppendPoint(@, cur.tech, cur.point)]
                  /\ project_points_set' =
                        [project_points_set EXCEPT ![r.project] = @ \cup {cur.point}]
                  /\ dropped' = dropped
             ELSE /\ dropped' = Append(dropped,
                        [point |-> cur.point,
                         holders |-> {p \in 0..(num_projects - 1) :
                                         cur.point \in project_points_set[p]}])
                  /\ UNCHANGED <<project_distributions, project_points_set>>
    /\ point_pos' = point_pos + 1
    /\ UNCHANGED <<tech_stacks, num_projects, notDist>>

DistDone == point_pos = Len(FlatPoints(tech_stacks))

NextDist == DistributePoint

SpecDist == InitDist /\ [][NextDist]_vars

(* The points a project holds, over all its technologies, in dict order.   *)
ProjectPoints(p) == Concat(DictValues(project_distributions[p]))

ProjectCounts == [k \in 1..num_projects |-> Len(ProjectPoints(k - 1))]

Max(S) == CHOOSE x \in S : \A y \in S : y <= x
Min(S) == CHOOSE x \in S : \A y \in S : x <= y

(* C1: no project's assigned points, taken together over all of its
   technologies, hold the same literal string twice.                       *)
C1_NoDuplicatePoints ==
    \A p \in 0..(num_projects - 1) : NoRepeat(ProjectPoints(p))

(* C1 witness: a finished distribution whose input repeats a string inside
   one technology and also names it under a second technology.             *)
C1_Witness ==
    /\ DistDone
    /\ Len(tech_stacks) = 2
    /\ \E t \in PointTexts :
          /\ Count(t, tech_stacks[1].val) >= 2
          /\ Count(t, tech_stacks[2].val) >= 1
    /\ \E p \in 0..(num_projects - 1) : Len(project_distributions[p]) = 2

(* C2: conservation.  Every occurrence of a walked point is either held by
   exactly one project or has been dropped, so the per-project counts plus
   the drops add up to the number of points walked (at the end: the number
   of input points); and a point was dropped only when, at that moment,
   every one of the N projects already held that string.                   *)
C2_Conservation ==
    LET walked == SubSeq(FlatPoints(tech_stacks), 1, point_pos)
    IN /\ SumSeq(ProjectCounts) + Len(dropped) = point_pos
       /\ \A t \in PointTexts :
             SumSeq([k \in 1..num_projects |-> Count(t, ProjectPoints(k - 1))])
               + Cardinality({k \in 1..Len(dropped) : dropped[k].point = t})
             = Cardinality({k \in 1..Len(walked) : walked[k].point = t})
       /\ \A k \in 1..Len(dropped) : dropped[k].holders = 0..(num_projects - 1)
       /\ DistDone => SumSeq(ProjectCounts) + Len(dropped)
                         = SumSeq([k \in 1..Len(tech_stacks) |-> Len(tech_stacks[k].val)])

(* C2 witness: a finished distribution over two or more projects that both
   assigned points and dropped one.                                        *)
C2_Witness ==
    /\ DistDone
    /\ num_projects >= 2
    /\ Len(dropped) >= 1
    /\ SumSeq(ProjectCounts) >= num_projects

(* C3: balance.  When the distributor dropped no point, the largest and the
   smallest per-project point count differ by at most 1.                   *)
C3_Balance ==
    (DistDone /\ dropped = <<>>) =>
        Max(Range(ProjectCounts)) - Min(Range(ProjectCounts)) <= 1

(* The projects that do not hold the point, as distances from the cursor. *)
FreeDistances(point) ==
    {j \in 0..(num_projects - 1) :
        point \notin project_points_set[(next_project_idx + j) % num_projects]}

(* One step of the walk seen from outside: the point goes to the nearest
   free project in cyclic order from the cursor and the cursor moves just
   past it; with no free project nothing is assigned and the cursor stays. *)
RoundRobinStep ==
    LET cur == FlatPoints(tech_stacks)[point_pos + 1]
        free == FreeDistances(cur.point)
    IN IF free # {}
       THEN LET target == (next_project_idx + Min(free)) % num_projects
            IN /\ project_points_set' =
                     [project_points_set EXCEPT ![target] = @ \cup {cur.point}]
               /\ project_distributions' =
                     [project_distributions EXCEPT ![target] =
                         AppendPoint(@, cur.tech, cur.point)]
               /\ next_project_idx' = (target + 1) % num_projects
               /\ dropped' = dropped
       ELSE /\ next_project_idx' = next_project_idx
            /\ project_points_set' = project_points_set
            /\ project_distributions' = project_distributions
            /\ Len(dropped') = Len(dropped) + 1

(* With pairwise-distinct points the k-th walked point is in project
   k mod N, under its technology.                                          *)
DistinctPointsCycle ==
    LET flat == FlatPoints(tech_stacks)
    IN NoRepeat([k \in 1..Len(flat) |-> flat[k].point]) =>
          /\ \A k \in 0..(point_pos - 1) :
                /\ flat[k + 1].point \in project_points_set[k % num_projects]
                /\ flat[k + 1].tech \in DictKeys(project_distributions[k % num_projects])
                /\ Count(flat[k + 1].point,
                         DictVal(project_distributions[k % num_projects],
                                 flat[k + 1].tech)) = 1
          /\ \A p \in 0..(num_projects - 1) :
                Len(ProjectPoints(p))
                   = Cardinality({k \in 0..(point_pos - 1) : k % num_projects = p})
          /\ dropped = <<>>

(* C22: every step of _calculate_round_robin_distribution assigns the point
   to the first project, probing cyclically from the cursor, that does not
   hold that string, and leaves the cursor one past it (modulo N); a point
   every project holds is dropped with the cursor where it was.  So with
   pairwise-distinct points the k-th point is in project k mod N and each
   point is held exactly once.                                             *)
C22_RoundRobinStep ==
    [][RoundRobinStep]_vars /\ []DistinctPointsCycle

(* C22 witness: {Python: [x, y], Java: [z]} with three different strings
   over two projects is finished: project 0 has two points, project 1 one. *)
C22_Witness ==
    /\ DistDone
    /\ num_projects = 2
    /\ Len(tech_stacks) = 2
    /\ Len(tech_stacks[1].val) = 2
    /\ Len(tech_stacks[2].val) = 1
    /\ NoRepeat(tech_stacks[1].val \o tech_stacks[2].val)
    /\ Len(ProjectPoints(0)) = 2
    /\ Len(ProjectPoints(1)) = 1

---------------------------------------------------------------------------
(* processors/point_distributor.py: PointDistributor._calculate_round_robin_distribution *)

Orderings(s) ==
    {[k \in 1..Len(s) |-> s[f[k]]] :
        f \in {g \in [1..Len(s) -> 1..Len(s)] : \A a, b \in 1..Len(s) : a # b => g[a] # g[b]}}

(* random.shuffle(all_points): any order of the list may come out.         *)
Shuffle(s) == Orderings(s)

InitShuffle ==
    /\ num_projects \in 1..MaxTopProjects
    /\ tech_stacks \in TechStackInputs(MaxShufflePoints)
    /\ RoundRobinStart
    /\ shuffle_pc = [r \in Runs |-> "flatten"]
    /\ all_points = [r \in Runs |-> <<>>]
    /\ shuffle_distribution = [r \in Runs |-> <<>>]
    /\ shuffle_i = [r \in Runs |-> 0]
    /\ DetectIdle
    /\ ProcessIdle
    /\ RepeatIdle
    /\ FormatIdle
    /\ CallIdle
    /\ BulkIdle
    /\ AddIdle

(* distribution = {i: []}; flatten; random.shuffle(all_points)             *)
ShuffleFlatten(r) ==
    /\ shuffle_pc[r] = "flatten"
    /\ \A q \in Runs : q < r => shuffle_pc[q] = "done"   \* the runs follow one another
    /\ \E order \in Shuffle(FlatPoints(tech_stacks)) :
          all_points' = [all_points EXCEPT ![r] = order]
    /\ shuffle_distribution' =
          [shuffle_distribution EXCEPT ![r] = [p \in 0..(num_projects - 1) |-> <<>>]]
    /\ shuffle_pc' = [shuffle_pc EXCEPT ![r] = "assign"]
    /\ UNCHANGED <<shuffle_i, notShuffle>>

(* for i, point in enumerate(all_points): distribution[i % n].append(point) *)
ShuffleAssign(r) ==
    /\ shuffle_pc[r] = "assign"
    /\ IF shuffle_i[r] < Len(all_points[r])
       THEN /\ shuffle_distribution' =
                 [shuffle_distribution EXCEPT ![r][shuffle_i[r] % num_projects] =
                     Append(@, all_points[r][shuffle_i[r] + 1])]
            /\ shuffle_i' = [shuffle_i EXCEPT ![r] = @ + 1]
            /\ UNCHANGED shuffle_pc
       ELSE /\ shuffle_pc' = [shuffle_pc EXCEPT ![r] = "done"]
            /\ UNCHANGED <<shuffle_distribution, shuffle_i>>
    /\ UNCHANGED <<all_points, notShuffle>>

NextShuffle == \E r \in Runs : ShuffleFlatten(r) \/ ShuffleAssign(r)

SpecShuffle == InitShuffle /\ [][NextShuffle]_vars

(* The assignment that walks the points in technology order and then in
   point order within a technology: point k goes to project k mod N.       *)
InputOrderAssignment(p) ==
    LET flat == FlatPoints(tech_stacks)
        mine == {k \in 1..Len(flat) : (k - 1) % num_projects = p}
        RECURSIVE pick(_)
        pick(k) == IF k > Len(flat) THEN <<>>
                   ELSE (IF k \in mine THEN <<flat[k]>> ELSE <<>>) \o pick(k + 1)
    IN pick(1)

(* C4: the distribution is deterministic and follows input order: two runs
   on the same projects and the same technology -> points mapping return
   identical assignments, each the walk in technology order and then in
   point order, with no shuffling.                                         *)
C4_Deterministic ==
    (\A r \in Runs : shuffle_pc[r] = "done") =>
        /\ shuffle_distribution[1] = shuffle_distribution[2]
        /\ \A r \in Runs : \A p \in 0..(num_projects - 1) :
              shuffle_distribution[r][p] = InputOrderAssignment(p)

---------------------------------------------------------------------------
(* ProjectDetector (src/document_processor.py)                             *)

(* Python's None for current_project and project_title_line: both are only
   ever set to a non-empty text, and the code tests them by truth value or
   "is None", so the empty string stands for None.                         *)
None == ""

(* PARSING_CONFIG["section_end_keywords"], DOC_CONFIG["bullet_markers"] *)
section_end_keywords == {"achievements", "technologies", "tools", "key"}
bullet_markers == <<"-", U2022, "*">>

MonthNames == {"jan", "feb", "mar", "apr", "may", "jun",
               "jul", "aug", "sep", "oct", "nov", "dec"}

is_responsibilities_heading(text) ==
    LET norm == Strip(CollapseSpaces(KeepLowerAndSpace(Lower(text))))
        keywords == {"responsibilities", "key responsibilities", "duties",
                     "tasks", "role", "position"}
    IN \E k \in keywords : StartsWith(norm, k)

is_bullet_point(text) ==
    LET t == Strip(text)
        markers == {U2022, "-", "*", U25E6, U25AA, U25AB, U2023}
    IN \/ \E marker \in markers : StartsWith(t, marker)
       \/ MatchNumbered(t)

is_introductory_paragraph(text) ==
    LET t == Strip(text)
        low == Lower(t)
    IN IF is_bullet_point(t) THEN FALSE
       ELSE IF IsUpperText(t) \/ MatchCapsAndSpace(t) THEN FALSE
       ELSE IF WordCount(t) < 5 THEN FALSE
       ELSE IF \E keyword \in {"responsibilities", "duties", "role", "position"} :
                   Contains(low, keyword) THEN FALSE
       ELSE WordCount(t) >= 10

_looks_like_company_date(text) ==
    IF text = "" \/ ~Contains(text, "|") THEN FALSE
    ELSE IF SplitCount(text, "|") # 2 THEN FALSE
    ELSE LET date_part == Lower(Strip(SecondPart(text, "|")))
         IN \/ SearchWord(date_part, MonthNames)
            \/ SearchYear(date_part)
            \/ SearchDate(date_part)
            \/ SearchWord(date_part, {"present", "current", "now"})

is_project_header(text) ==
    LET t == Strip(text)
        role_keywords == {"developer", "engineer", "manager", "lead", "senior",
                          "software", "full stack", "frontend", "backend"}
        low == Lower(t)
    IN IF is_bullet_point(t) THEN FALSE
       ELSE IF WordCount(t) < 2 THEN FALSE
       ELSE \/ Contains(t, "|") /\ _looks_like_company_date(t)
            \/ Contains(t, " - ") /\ SearchWord(low, MonthNames)
            \/ Contains(t, " at ") /\ Contains(t, "(") /\ Contains(t, ")")
            \/ \E keyword \in role_keywords : Contains(low, keyword)

_is_section_end(text) ==
    LET low == Lower(text)
    IN \/ StartsWith(text, "##")
       \/ \E keyword \in section_end_keywords : Contains(low, keyword)

(* for j in range(current_index - 1, start_index - 1, -1): the first j, from
   the top, whose paragraph is not blank and does not start with "-"       *)
_find_responsibilities_end(paragraphs, current_index, start_index) ==
    LET hits == {j \in start_index..(current_index - 1) :
                    /\ j < Len(paragraphs)
                    /\ Strip(paragraphs[j + 1]) # ""
                    /\ ~StartsWith(Strip(paragraphs[j + 1]), "-")}
    IN IF hits = {} THEN current_index - 1
       ELSE CHOOSE j \in hits : \A k \in hits : k <= j

(* The locals of find_projects_and_responsibilities before the loop.  The
   h_ fields are history: the paragraph index of the open project's header,
   of the line appended to its title, of its bullet lines, and one record
   per appended tuple telling where it came from.                          *)
DetectorStart ==
    [projects |-> <<>>,
     current_project |-> None,
     project_title_line |-> None,
     in_responsibilities |-> FALSE,
     responsibilities_start |-> -1,
     found_bullet_points |-> FALSE,
     h_header |-> -1,
     h_title_at |-> -1,
     h_bullets |-> {},
     h_entries |-> <<>>]

Entry(st, end) ==
    [title |-> st.current_project, start |-> st.responsibilities_start, end |-> end]

History(st, by) ==
    [header |-> st.h_header, title_at |-> st.h_title_at,
     bullets |-> st.h_bullets, by |-> by]

(* line 787: the line after a header that is taken as the job title *)
TitleLineCandidate(st, text) ==
    /\ st.current_project # None
    /\ st.project_title_line = None
    /\ text # ""
    /\ ~is_responsibilities_heading(text)
    /\ ~is_bullet_point(text)
    /\ ~is_introductory_paragraph(text)

(* One iteration of "for i, para in enumerate(doc.paragraphs)" *)
LoopBody(st, paragraphs, i) ==
    LET text == Strip(paragraphs[i + 1])
    IN IF is_project_header(text)
       THEN LET saved ==
                  IF st.current_project # None
                     /\ (st.responsibilities_start # -1 \/ st.found_bullet_points)
                  THEN LET start == IF st.responsibilities_start = -1
                                    THEN i + 1 ELSE st.responsibilities_start
                           st1 == [st EXCEPT !.responsibilities_start = start]
                       IN [st1 EXCEPT
                             !.projects = Append(@, Entry(st1,
                                 _find_responsibilities_end(paragraphs, i, start))),
                             !.h_entries = Append(@, History(st1, "header"))]
                  ELSE st
            IN [saved EXCEPT !.current_project = text,
                             !.project_title_line = None,
                             !.in_responsibilities = FALSE,
                             !.responsibilities_start = -1,
                             !.found_bullet_points = FALSE,
                             !.h_header = i,
                             !.h_title_at = -1,
                             !.h_bullets = {}]
       ELSE IF TitleLineCandidate(st, text)
       THEN [st EXCEPT !.project_title_line = text,
                       !.current_project = st.current_project \o " - " \o text,
                       !.h_title_at = i]
       ELSE IF text # "" /\ is_responsibilities_heading(text)
       THEN [st EXCEPT !.in_responsibilities = TRUE,
                       !.responsibilities_start = i + 1]
       ELSE IF st.current_project # None /\ text # "" /\ is_introductory_paragraph(text)
       THEN st
       ELSE IF st.current_project # None /\ text # "" /\ is_bullet_point(text)
       THEN [st EXCEPT !.found_bullet_points = TRUE,
                       !.responsibilities_start = IF @ = -1 THEN i ELSE @,
                       !.h_bullets = @ \cup {i}]
       ELSE IF /\ (st.in_responsibilities \/ st.found_bullet_points)
               /\ text # ""
               /\ (_is_section_end(text) \/ is_project_header(text))
       THEN LET closed ==
                  IF st.current_project # None /\ st.responsibilities_start # -1
                  THEN [st EXCEPT
                          !.projects = Append(@, Entry(st, i - 1)),
                          !.h_entries = Append(@, History(st, "section_end"))]
                  ELSE st
            IN [closed EXCEPT !.in_responsibilities = FALSE,
                              !.responsibilities_start = -1,
                              !.found_bullet_points = FALSE,
                              !.h_bullets = {}]
       ELSE st

(* "Add the last project if found" and the defensive filter *)
AfterLoop(st, paragraphs) ==
    LET last ==
          IF st.current_project # None
             /\ (st.responsibilities_start # -1 \/ st.found_bullet_points)
          THEN LET start == IF st.responsibilities_start = -1
                            THEN Len(paragraphs) - 1 ELSE st.responsibilities_start
                   st1 == [st EXCEPT !.responsibilities_start = start]
               IN [st1 EXCEPT
                     !.projects = Append(@, Entry(st1, Len(paragraphs) - 1)),
                     !.h_entries = Append(@, History(st1, "end_of_input"))]
          ELSE st
        keep == {k \in 1..Len(last.projects) : last.projects[k].start # -1}
        RECURSIVE filter(_, _)
        filter(seq, k) == IF k > Len(seq) THEN <<>>
                          ELSE (IF k \in keep THEN <<seq[k]>> ELSE <<>>)
                               \o filter(seq, k + 1)
    IN [last EXCEPT !.projects = filter(last.projects, 1),
                    !.h_entries = filter(last.h_entries, 1)]

(* find_projects_and_responsibilities(doc) as a function: the loop, then the
   code after it                                                           *)
RECURSIVE RunLoop(_, _, _)
RunLoop(st, paragraphs, i) ==
    IF i >= Len(paragraphs) THEN st
    ELSE RunLoop(LoopBody(st, paragraphs, i), paragraphs, i + 1)

find_projects_and_responsibilities(paragraphs) ==
    AfterLoop(RunLoop(DetectorStart, paragraphs, 0), paragraphs).projects

(* The documents: every list of at most MaxParas texts of DocTexts, one
   text of each kind the loop tells apart, and the scenario documents.     *)
HeaderText == "Acme Corp | Jan 2020 - Present"
HeadingText == "Responsibilities:"
BulletText == "@ Built APIs"
DashBulletText == "- Wrote tests"
IntroText ==
    "Developed and maintained internal tooling for three years across distributed teams"
IntroAtText ==
    "Worked at the client site (remote) on internal tooling for three years straight"
SectionEndText == "Key Achievements"
PlainText == "Austin, TX"

DocTexts == {HeaderText, HeadingText, BulletText, DashBulletText, "",
             IntroText, IntroAtText, SectionEndText, PlainText}

ScenarioA == <<"Acme Corp | Jan 2020 - Present", "Responsibilities:", "@ Built APIs",
               "@ Wrote tests", "Beta Inc | 2018 - 2019", "@ Led team">>
ScenarioC == <<"Acme Corp | Jan 2020 - Present", IntroText, "@ Built APIs">>
ScenarioNumbered == <<"Senior Developer at Initech (Austin)", "1. Led team",
                      "2. Shipped code", "## Skills">>

ScenarioDocs == {ScenarioA, ScenarioC, ScenarioNumbered}

(* The texts the next paragraph of the document may hold. *)
NextTexts(paragraphs) ==
    (IF Len(paragraphs) < MaxParas /\ Range(paragraphs) \subseteq DocTexts
     THEN DocTexts ELSE {})
    \cup {sc[Len(paragraphs) + 1] :
            sc \in {x \in ScenarioDocs :
                      /\ Len(x) > Len(paragraphs)
                      /\ SubSeq(x, 1, Len(paragraphs)) = paragraphs}}

InitDetect ==
    /\ doc = <<>>
    /\ det = DetectorStart
    /\ det_pc = "loop"
    /\ DistIdle
    /\ ShuffleIdle
    /\ ProcessIdle
    /\ RepeatIdle
    /\ FormatIdle
    /\ CallIdle
    /\ BulkIdle
    /\ AddIdle

(* One iteration of the loop.  The loop reads paragraph i at iteration i and
   _find_responsibilities_end only looks back from i, so the document is
   extended by the paragraph the iteration reads.                          *)
ReadParagraph ==
    /\ det_pc = "loop"
    /\ \E text \in NextTexts(doc) :
          /\ doc' = Append(doc, text)
          /\ det' = LoopBody(det, Append(doc, text), Len(doc))
    /\ UNCHANGED <<det_pc, notDetect>>

(* The end of the paragraph list: the code after the loop. *)
EndOfInput ==
    /\ det_pc = "loop"
    /\ det' = AfterLoop(det, doc)
    /\ det_pc' = "done"
    /\ UNCHANGED <<doc, notDetect>>

NextDetect == ReadParagraph \/ EndOfInput

SpecDetect == InitDetect /\ [][NextDetect]_vars

---------------------------------------------------------------------------
(* Properties of the detector.  Paragraph indices are the code's, 0-based. *)

(* The texts of the documents, told apart by the detector's own predicates *)
AllTexts == DocTexts \cup UNION {Range(sc) : sc \in ScenarioDocs}
HeaderTexts == {t \in AllTexts : is_project_header(Strip(t))}
HeadingTexts == {t \in AllTexts : is_responsibilities_heading(Strip(t))}
BulletTexts == {t \in AllTexts : is_bullet_point(Strip(t))}
IntroTexts == {t \in AllTexts : is_introductory_paragraph(Strip(t))}

ParaText(i) == Strip(doc[i + 1])
HeaderIndices == {i \in 0..(Len(doc) - 1) : doc[i + 1] \in HeaderTexts}

(* the index of the next project header after paragraph h, or len(doc) *)
NextHeader(h) ==
    LET later == {i \in HeaderIndices : i > h}
    IN IF later = {} THEN Len(doc) ELSE CHOOSE i \in later : \A j \in later : i <= j

IsMarkerBullet(text) ==
    \E marker \in {U2022, "-", "*", U25E6, U25AA, U25AB, U2023} : StartsWith(text, marker)

BlockBody(h) == (h + 1)..(NextHeader(h) - 1)

(* A document made only of project blocks: a header line, an optional
   responsibilities heading right after it, then one or more bullet lines. *)
IsBlockDocument ==
    /\ Len(doc) >= 1
    /\ 0 \in HeaderIndices
    /\ \A h \in HeaderIndices :
          /\ \E j \in BlockBody(h) : IsMarkerBullet(ParaText(j))
          /\ \A j \in BlockBody(h) :
                \/ IsMarkerBullet(ParaText(j))
                \/ j = h + 1 /\ doc[j + 1] \in HeadingTexts

FirstBullet(h) ==
    CHOOSE j \in BlockBody(h) :
        /\ IsMarkerBullet(ParaText(j))
        /\ \A k \in BlockBody(h) : IsMarkerBullet(ParaText(k)) => j <= k

(* C7: for a document made only of project blocks, the detector returns one
   project per block, in document order, titled with the block's header and
   ranging from the block's first bullet line to its last bullet line.     *)
C7_BlockRanges ==
    (det_pc = "done" /\ IsBlockDocument) =>
        /\ Len(det.projects) = Cardinality(HeaderIndices)
        /\ \A k \in 1..Len(det.projects) :
              \E h \in HeaderIndices :
                 /\ Cardinality({x \in HeaderIndices : x < h}) = k - 1
                 /\ det.projects[k] = [title |-> ParaText(h),
                                       start |-> FirstBullet(h),
                                       end |-> NextHeader(h) - 1]

(* C8: every returned project with a detected bullet line has
   header index < start <= end <= last paragraph before the next header (or
   of the document), and start and end are paragraph indices.              *)
C8_RangeInvariant ==
    det_pc = "done" =>
        \A k \in 1..Len(det.projects) :
            det.h_entries[k].bullets # {} =>
                LET e == det.projects[k]
                    h == det.h_entries[k].header
                IN /\ h < e.start
                   /\ e.start <= e.end
                   /\ e.end <= NextHeader(h) - 1
                   /\ e.start \in 0..(Len(doc) - 1)
                   /\ e.end \in 0..(Len(doc) - 1)

HasEvidence(h) ==
    \E j \in BlockBody(h) : doc[j + 1] \in HeadingTexts \cup BulletTexts

(* C9: each project header contributes exactly one returned entry when a
   responsibilities heading or a bullet line lies between it and the next
   header (or the end), and none otherwise; no entry has start = -1.       *)
C9_OneEntryPerHeader ==
    det_pc = "done" =>
        /\ \A h \in HeaderIndices :
              Cardinality({k \in 1..Len(det.projects) : det.h_entries[k].header = h})
                = IF HasEvidence(h) THEN 1 ELSE 0
        /\ \A k \in 1..Len(det.projects) : det.projects[k].start # -1

(* C10: an introductory paragraph read right after a project header is
   skipped: the step that reads it leaves the project's title and its
   evidence (heading, bullets, range start, saved projects) as they were.  *)
C10_IntroductorySkipped ==
    [][(/\ det_pc = "loop"
        /\ Len(doc') = Len(doc) + 1
        /\ det.current_project # None
        /\ det.h_header = Len(doc) - 1
        /\ doc'[Len(doc')] \in IntroTexts)
       => /\ det'.current_project = det.current_project
          /\ det'.project_title_line = det.project_title_line
          /\ det'.found_bullet_points = det.found_bullet_points
          /\ det'.responsibilities_start = det.responsibilities_start
          /\ det'.projects = det.projects]_vars

(* C25: a returned project with at least one bullet line, closed by the
   next project header or flushed at the end of the input, has
   responsibilities_end at its last bullet line.                           *)
C25_EndAtLastBullet ==
    \A k \in 1..Len(det.projects) :
        (/\ det.h_entries[k].bullets # {}
         /\ det.h_entries[k].by \in {"header", "end_of_input"})
        => det.projects[k].end = Max(det.h_entries[k].bullets)

(* C26: the title of the open project changes at most once, by the line
   that is read before any bullet line or responsibilities heading of the
   project and is not empty, a bullet, a heading or an introductory
   paragraph; a line read after the project's bullets leaves the title.    *)
C26_TitleCapturedOnce ==
    [][(/\ det_pc = "loop"
        /\ det'.h_header = det.h_header
        /\ det'.current_project # det.current_project)
       => /\ det.h_title_at = -1
          /\ det.h_bullets = {}
          /\ ~det.in_responsibilities
          /\ LET text == Strip(doc'[Len(doc')])
             IN /\ text # ""
                /\ ~is_bullet_point(text)
                /\ ~is_responsibilities_heading(text)
                /\ ~is_introductory_paragraph(text)
                /\ det'.current_project = det.current_project \o " - " \o text]_vars

(* A line that ends a section and is nothing else to the loop. *)
SectionEndLine(text) ==
    /\ text # ""
    /\ _is_section_end(text)
    /\ ~is_project_header(text)
    /\ ~is_bullet_point(text)
    /\ ~is_responsibilities_heading(text)
    /\ ~is_introductory_paragraph(text)

(* Reading a section-end line at index i while the open project has bullet
   lines appends the project with an end before i.                         *)
SectionEndCloses ==
    (/\ det_pc = "loop"
     /\ Len(doc') = Len(doc) + 1
     /\ det.current_project # None
     /\ det.h_bullets # {}
     /\ SectionEndLine(Strip(doc'[Len(doc')])))
    => /\ Len(det'.projects) = Len(det.projects) + 1
       /\ det'.projects[Len(det'.projects)].end < Len(doc)

(* No returned range holds a bullet line that follows a section-end line
   of its project.                                                         *)
NoBulletPastSectionEnd ==
    det_pc = "done" =>
        \A k \in 1..Len(det.projects) :
            \A i \in det.projects[k].start..det.projects[k].end :
                (i \in 0..(Len(doc) - 1) /\ is_bullet_point(Strip(doc[i + 1]))) =>
                    ~\E j \in (det.h_entries[k].header + 1)..(i - 1) :
                        /\ SectionEndLine(Strip(doc[j + 1]))
                        /\ \E b \in (det.h_entries[k].header + 1)..(j - 1) :
                              is_bullet_point(Strip(doc[b + 1]))

(* C27: a section-end line read at index i while the open project has
   bullet evidence closes the project's range with responsibilities_end
   below i, and bullet lines after it, before the next project header, are
   in no range of that project.                                            *)
C27_SectionEndClosesRange ==
    [][SectionEndCloses]_vars /\ []NoBulletPastSectionEnd

---------------------------------------------------------------------------
(* BulletFormatter (src/document_processor.py)                             *)

(* the first element of the list ms that satisfies Hit, or None *)
FirstOf(ms, Hit(_)) ==
    LET hits == {k \in 1..Len(ms) : Hit(ms[k])}
    IN IF hits = {} THEN None ELSE ms[CHOOSE k \in hits : \A j \in hits : k <= j]

priority_markers == <<U2022, U25CF, U25E6, U25AA, U25AB, U2023>>
all_markers == priority_markers \o <<"*", "-">> \o bullet_markers

_is_bullet_point(text) ==
    LET t == Strip(text)
    IN \/ \E k \in 1..Len(all_markers) :
             StartsWith(t, all_markers[k] \o " ") \/ StartsWith(t, all_markers[k])
       \/ /\ t # ""
          /\ IsDigit(Ch(t, 1))
          /\ Contains(SubSeq(t, 1, IF Len(t) < 3 THEN Len(t) ELSE 3), ".")

_extract_bullet_marker(text) ==
    LET t == Strip(text)
        other_markers == <<"*", "-">> \o bullet_markers
        Hit(marker) == \/ StartsWith(t, marker \o "\t")
                       \/ StartsWith(t, marker \o " ")
                       \/ StartsWith(t, marker) /\ Len(t) > 1
        closers == {i \in 1..Len(t) : Ch(t, i) \in {".", ")"}}
    IN IF FirstOf(priority_markers, Hit) # None THEN FirstOf(priority_markers, Hit)
       ELSE IF FirstOf(other_markers, Hit) # None THEN FirstOf(other_markers, Hit)
       ELSE IF t # "" /\ IsDigit(Ch(t, 1)) /\ closers # {}
       THEN SubSeq(t, 1, CHOOSE i \in closers : \A j \in closers : i <= j)
       ELSE U2022

_detect_bullet_separator(text) ==
    LET t == Strip(text)
        markers == priority_markers \o <<"*", "-">>
        Hit(marker) == StartsWith(t, marker \o "\t") \/ StartsWith(t, marker \o " ")
        marker == FirstOf(markers, Hit)
    IN IF marker = None THEN "\t"
       ELSE IF StartsWith(t, marker \o "\t") THEN "\t" ELSE " "

(* get_bullet_formatting: None is the empty list, a descriptor d is <<d>>.
   Of the descriptor, the marker and the separator come from the text; the
   style and the run and paragraph attributes are copied from the
   paragraph, which is named by its index.                                *)
get_bullet_formatting(paragraphs, paragraph_index) ==
    IF paragraph_index >= Len(paragraphs) THEN <<>>
    ELSE LET para == paragraphs[paragraph_index + 1]
         IN IF ~_is_bullet_point(para.text) THEN <<>>
            ELSE <<[bullet_marker |-> _extract_bullet_marker(para.text),
                    bullet_separator |-> _detect_bullet_separator(para.text),
                    copied_from |-> para.src]>>

(* clean_text = text.lstrip(markers, space, tab).lstrip() *)
CleanText(text) ==
    LStripChars(LStripChars(text, "-" \o U2022 \o "*" \o U25E6 \o U25AA \o U25AB
                                   \o U2023 \o " \t"),
                " \t\n")

(* apply_bullet_formatting, normal path: the paragraph is cleared and gets
   one run with the cleaned text; the descriptor, or the fallback when
   there is none, gives the marker and the formatting.                     *)
apply_bullet_formatting(paragraph, formatting, text, fallback_formatting) ==
    LET used == IF formatting = <<>> THEN fallback_formatting ELSE formatting[1]
    IN [paragraph EXCEPT !.text = CleanText(text),
                         !.bullet_marker = used.bullet_marker,
                         !.copied_from = used.copied_from]

---------------------------------------------------------------------------
(* PointDistributor.distribute_points_to_projects                          *)

(* _calculate_round_robin_distribution as a function: the walk of
   DistributePoint from pair k of the flattened input to its end.          *)
RECURSIVE RoundRobinFrom(_, _, _, _, _, _)
RoundRobinFrom(flat, k, dists, sets, idx, n) ==
    IF k > Len(flat) THEN dists
    ELSE LET r == Probe(sets, idx, n, flat[k].point, n)
         IN IF r.assigned
            THEN RoundRobinFrom(flat, k + 1,
                    [dists EXCEPT ![r.project] = AppendPoint(@, flat[k].tech, flat[k].point)],
                    [sets EXCEPT ![r.project] = @ \cup {flat[k].point}],
                    r.next, n)
            ELSE RoundRobinFrom(flat, k + 1, dists, sets, r.next, n)

_calculate_round_robin_distribution(ts, n) ==
    RoundRobinFrom(FlatPoints(ts), 1, [p \in 0..(n - 1) |-> <<>>],
                   [p \in 0..(n - 1) |-> {}], 0, n)

(* "for i, project in enumerate(top_projects): distribution[title] = ..." *)
RECURSIVE AssignProjects(_, _, _, _)
AssignProjects(top_projects, distributed_points, i, acc) ==
    IF i >= Len(top_projects) THEN acc
    ELSE LET project == top_projects[i + 1]
             project_points == distributed_points[i]
             total_points == SumSeq([k \in 1..Len(project_points) |->
                                        Len(project_points[k].val)])
             info == [mixed_tech_stacks |-> project_points,
                      project_index |-> project.index,
                      insertion_point |-> project.responsibilities_start,
                      responsibilities_end |-> project.responsibilities_end,
                      total_points |-> total_points]
         IN AssignProjects(top_projects, distributed_points, i + 1,
                [distribution |-> DictPut(acc.distribution, project.title, info),
                 points_added |-> acc.points_added + total_points])

(* Variant of distribute_points_to_projects that takes every project. *)
DistributeToAllProjects(projects, tech_stacks_data) ==
    IF projects = <<>> \/ tech_stacks_data = <<>>
    THEN [success |-> FALSE, error |-> "No projects or tech stacks found"]
    ELSE LET distributed_points ==
                 _calculate_round_robin_distribution(tech_stacks_data, Len(projects))
             r == AssignProjects(projects, distributed_points, 0,
                                 [distribution |-> <<>>, points_added |-> 0])
         IN [success |-> TRUE,
             distribution |-> r.distribution,
             points_added |-> r.points_added,
             projects_used |-> Len(r.distribution),
             distribution_method |-> "round_robin"]

distribute_points_to_projects(projects, tech_stacks_data) ==
    IF projects = <<>> \/ tech_stacks_data = <<>>
    THEN [success |-> FALSE, error |-> "No projects or tech stacks found"]
    ELSE LET top_projects == SubSeq(projects, 1,
                                IF Len(projects) < MaxTopProjects
                                THEN Len(projects) ELSE MaxTopProjects)
             distributed_points ==
                 _calculate_round_robin_distribution(tech_stacks_data, Len(top_projects))
             r == AssignProjects(top_projects, distributed_points, 0,
                                 [distribution |-> <<>>, points_added |-> 0])
         IN [success |-> TRUE,
             distribution |-> r.distribution,
             points_added |-> r.points_added,
             projects_used |-> Len(r.distribution),
             distribution_method |-> "round_robin"]

---------------------------------------------------------------------------
(* DocumentProcessor (src/document_processor.py)                           *)

(* A paragraph of the document.  src is the paragraph's index in the input
   (-1 for a paragraph the run created), project the project_index the
   paragraph was inserted for; bullet_marker and copied_from are the
   marker and the source paragraph of the format applied to it.            *)
InputParagraph(text, i) ==
    [text |-> text, src |-> i, project |-> -1, bullet_marker |-> None,
     copied_from |-> -1]

(* insert_paragraph_before / add_paragraph give an empty paragraph *)
NewParagraph(project_index) ==
    [text |-> "", src |-> -1, project |-> project_index, bullet_marker |-> None,
     copied_from |-> -1]

(* Variant of InsertParagraph that writes over the paragraph at the
   position instead of inserting before it.                                *)
InsertParagraphOver(paragraphs, at, para) ==
    IF at < Len(paragraphs)
    THEN [paragraphs EXCEPT ![at + 1] = para]
    ELSE Append(paragraphs, para)

(* "if at < len(doc.paragraphs): doc.paragraphs[at].insert_paragraph_before()
    else: doc.add_paragraph()"                                              *)
InsertParagraph(paragraphs, at, para) ==
    IF at < Len(paragraphs)
    THEN SubSeq(paragraphs, 1, at) \o <<para>> \o SubSeq(paragraphs, at + 1, Len(paragraphs))
    ELSE Append(paragraphs, para)

(* _detect_document_bullet_marker: marker_counts in first-seen order, then
   the stable sort by (count, marker is not "-"), descending               *)
DocumentMarkerOf(text) ==
    LET Hit(marker) == StartsWith(text, marker \o " ")
    IN FirstOf(priority_markers \o <<"*", "-">>, Hit)

NumberedMarkerOf(text) ==
    IF \E n \in 1..(Len(text) - 2) :
          AllDigits(text, 1, n) /\ SubSeq(text, n + 1, n + 2) = ". "
    THEN "1." ELSE None

RECURSIVE MarkerCounts(_, _, _)
MarkerCounts(paragraphs, k, marker_counts) ==
    IF k > Len(paragraphs) THEN marker_counts
    ELSE LET text == Strip(paragraphs[k].text)
             Bump(counts, marker) ==
                 IF marker = None THEN counts
                 ELSE IF marker \in DictKeys(counts)
                      THEN DictPut(counts, marker, DictVal(counts, marker) + 1)
                      ELSE DictPut(counts, marker, 1)
         IN MarkerCounts(paragraphs, k + 1,
                Bump(Bump(marker_counts, DocumentMarkerOf(text)), NumberedMarkerOf(text)))

_detect_document_bullet_marker(paragraphs) ==
    LET marker_counts == MarkerCounts(paragraphs, 1, <<>>)
        Before(a, b) == \/ a.val > b.val
                        \/ a.val = b.val /\ a.key # "-" /\ b.key = "-"
        best == {k \in 1..Len(marker_counts) :
                    \A j \in 1..Len(marker_counts) : ~Before(marker_counts[j], marker_counts[k])}
    IN IF marker_counts = <<>> THEN U2022
       ELSE marker_counts[CHOOSE k \in best : \A j \in best : k <= j].key

(* add_points_to_project, lines 1101-1153: the format descriptor, the marker
   and the fallback for the new paragraphs                                 *)
ResolveFormat(paragraphs, project_info) ==
    LET insertion_point == project_info.insertion_point
        search_start == IF insertion_point - 5 > 0 THEN insertion_point - 5 ELSE 0
        search_end == IF Len(paragraphs) < project_info.responsibilities_end + 5
                      THEN Len(paragraphs) ELSE project_info.responsibilities_end + 5
        found == {i \in search_start..(search_end - 1) :
                     get_bullet_formatting(paragraphs, i) # <<>>}
        preferred == {i \in found :
                        get_bullet_formatting(paragraphs, i)[1].bullet_marker
                            \in Range(priority_markers)}
        chosen == IF preferred # {} THEN preferred ELSE found
        first == CHOOSE i \in chosen : \A j \in chosen : i <= j
    IN IF found # {}
       THEN LET para_formatting == get_bullet_formatting(paragraphs, first)[1]
            IN [formatting |-> <<para_formatting>>,
                marker_to_use |-> para_formatting.bullet_marker,
                fallback_formatting |-> para_formatting]
       ELSE LET marker_to_use == _detect_document_bullet_marker(paragraphs)
            IN [formatting |-> <<>>,
                marker_to_use |-> marker_to_use,
                fallback_formatting |-> [bullet_marker |-> marker_to_use,
                                         bullet_separator |-> "\t",
                                         copied_from |-> -1]]

(* "for tech_name, points in mixed_tech_stacks.items(): for point in points":
   one new paragraph per point, the position moving down by one each time  *)
RECURSIVE InsertPoints(_, _, _, _, _)
InsertPoints(paragraphs, at, points, project_index, format) ==
    IF points = <<>> THEN paragraphs
    ELSE LET new_para == apply_bullet_formatting(NewParagraph(project_index),
                             format.formatting, Head(points), format.fallback_formatting)
         IN InsertPoints(InsertParagraph(paragraphs, at, new_para), at + 1,
                         Tail(points), project_index, format)

(* Variant of FirstBulletIndex without the forward search: the anchor is
   the insertion point itself.                                             *)
FirstBulletIndexNoSearch(paragraphs, current_insertion_point) ==
    current_insertion_point

(* the while loop of lines 1161-1164 *)
FirstBulletIndex(paragraphs, current_insertion_point) ==
    LET bullets == {i \in current_insertion_point..(Len(paragraphs) - 1) :
                       /\ i >= 0
                       /\ Strip(paragraphs[i + 1].text) # ""
                       /\ _is_bullet_point(paragraphs[i + 1].text)}
    IN IF bullets = {}
       THEN IF current_insertion_point > Len(paragraphs)
            THEN current_insertion_point ELSE Len(paragraphs)
       ELSE CHOOSE i \in bullets : \A j \in bullets : i <= j

(* add_points_to_project: the document after the call, and its result *)
add_points_to_project(paragraphs, project_info) ==
    LET format == ResolveFormat(paragraphs, project_info)
        current_insertion_point == project_info.insertion_point
        first_bullet_index == FirstBulletIndex(paragraphs, current_insertion_point)
        points == Concat(DictValues(project_info.mixed_tech_stacks))
        at == IF first_bullet_index < Len(paragraphs)
              THEN first_bullet_index + 1 ELSE current_insertion_point
    IN [paragraphs |-> InsertPoints(paragraphs, at, points,
                                    project_info.project_index, format),
        points_added |-> Len(points)]

(* sorted(distribution.items(), key = insertion_point): a stable sort *)
RECURSIVE SortedByInsertionPoint(_)
SortedByInsertionPoint(items) ==
    IF items = <<>> THEN <<>>
    ELSE LET least == {k \in 1..Len(items) :
                          \A j \in 1..Len(items) :
                              items[k].val.insertion_point <= items[j].val.insertion_point}
             m == CHOOSE k \in least : \A j \in least : k <= j
         IN <<items[m]>> \o SortedByInsertionPoint(
                SubSeq(items, 1, m - 1) \o SubSeq(items, m + 1, Len(items)))

(* "Convert to structured format" *)
StructuredProjects(found) ==
    [k \in 1..Len(found) |->
        [title |-> found[k].title, index |-> k - 1,
         responsibilities_start |-> found[k].start,
         responsibilities_end |-> found[k].end]]

ParagraphTexts(paragraphs) == [k \in 1..Len(paragraphs) |-> paragraphs[k].text]

---------------------------------------------------------------------------
(* DocumentProcessor.process_document                                      *)

Header2Text == "Beta Inc | 2018 - 2019"
Header3Text == "Gamma LLC | 2016 - 2017"
Header4Text == "Delta Co | 2014 - 2015"

ProcessTexts == {HeaderText, Header2Text, HeadingText, BulletText, DashBulletText}

FourProjects == <<HeaderText, BulletText, Header2Text, BulletText,
                  Header3Text, BulletText, Header4Text, BulletText>>

(* The input documents: every list of at most MaxProcessParas texts of
   ProcessTexts, Scenario A and a document with four projects.             *)
ProcessDocs == SeqsUpTo(ProcessTexts, MaxProcessParas) \cup {ScenarioA, FourProjects}

(* The technology maps: none, one point, Scenario B, and four points of
   which one carries a marker.                                             *)
ScenarioB == <<[key |-> "Python", val |-> <<"p1", "p2">>],
               [key |-> "Java", val |-> <<"j1">>]>>
ProcessTechStacks ==
    {<<>>,
     <<[key |-> "Python", val |-> <<"p1">>]>>,
     ScenarioB,
     <<[key |-> "Python", val |-> <<"- p1", "p2">>],
       [key |-> "Java", val |-> <<"j1", "j2">>]>>}

InitProcess ==
    /\ file_data \in
          {[file_content |-> d, tech_stacks |-> ts, loadable |-> TRUE] :
              d \in ProcessDocs, ts \in ProcessTechStacks}
          \cup {[file_content |-> <<>>, tech_stacks |-> ts, loadable |-> FALSE] :
                   ts \in ProcessTechStacks}
    /\ document = <<>>
    /\ projects_data = <<>>
    /\ distribution_result = <<>>
    /\ sorted_projects = <<>>
    /\ paragraph_offset = 0
    /\ total_added = 0
    /\ result = <<>>
    /\ proc_pc = "load"
    /\ point_outcomes = <<>>
    /\ DistIdle
    /\ ShuffleIdle
    /\ DetectIdle
    /\ RepeatIdle
    /\ FormatIdle
    /\ CallIdle
    /\ BulkIdle
    /\ AddIdle

(* Variant of ExceptionResult that hands back the document as it stands. *)
ExceptionResultWithContent(error) ==
    [success |-> FALSE, error |-> "Failed to process document: " \o error,
     modified_content |-> document, points_added |-> total_added]

(* lines 1369-1374: "except Exception as e: return {...}" *)
ExceptionResult(error) ==
    [success |-> FALSE, error |-> "Failed to process document: " \o error]

(* line 1318: the message of the early return *)
NoProjectsError ==
    "No projects found in the document. Please ensure your resume has clear project sections."

(* Variant of NoProjects that never takes the early return. *)
NoProjectsIgnored(found) ==
    FALSE

(* line 1314: "if not projects_data" *)
NoProjects(found) ==
    found = <<>>

(* lines 1310-1319: load the document, detect the projects.  file_data's
   loadable tells whether Document() accepts the bytes; when it does not,
   Document() raises inside the try and the except clause returns.         *)
LoadAndDetect ==
    /\ proc_pc = "load"
    /\ IF ~file_data.loadable
       THEN /\ result' = ExceptionResult("not a valid document")
            /\ proc_pc' = "done"
            /\ UNCHANGED <<document, projects_data>>
       ELSE LET loaded == [k \in 1..Len(file_data.file_content) |->
                              InputParagraph(file_data.file_content[k], k - 1)]
                found == find_projects_and_responsibilities(ParagraphTexts(loaded))
            IN /\ document' = loaded
               /\ projects_data' = found
               /\ IF NoProjects(found)
                  THEN /\ result' = [success |-> FALSE,
                                     error |-> NoProjectsError]
                       /\ proc_pc' = "done"
                  ELSE /\ result' = result
                       /\ proc_pc' = "distribute"
    /\ UNCHANGED <<file_data, distribution_result, sorted_projects, paragraph_offset,
                   total_added, point_outcomes, notProcess>>

(* lines 1321-1342: structure the projects, distribute, sort *)
Distribute ==
    /\ proc_pc = "distribute"
    /\ LET r == distribute_points_to_projects(StructuredProjects(projects_data),
                                              file_data.tech_stacks)
       IN /\ distribution_result' = r
          /\ IF ~r.success
             THEN /\ result' = r
                  /\ proc_pc' = "done"
                  /\ UNCHANGED sorted_projects
             ELSE /\ sorted_projects' = SortedByInsertionPoint(r.distribution)
                  /\ proc_pc' = "insert"
                  /\ UNCHANGED result
    /\ paragraph_offset' = 0
    /\ total_added' = 0
    /\ UNCHANGED <<file_data, document, projects_data, point_outcomes, notProcess>>

(* lines 1344-1353: one iteration of "for project_title, project_info in
   sorted_projects"                                                        *)
InsertProject ==
    /\ proc_pc = "insert"
    /\ sorted_projects # <<>>
    /\ LET project_info == Head(sorted_projects).val
           adjusted_project_info ==
               [project_info EXCEPT
                   !.insertion_point = @ + paragraph_offset,
                   !.responsibilities_end = @ + paragraph_offset]
           r == add_points_to_project(document, adjusted_project_info)
       IN /\ document' = r.paragraphs
          /\ total_added' = total_added + r.points_added
          /\ paragraph_offset' = paragraph_offset + r.points_added
    /\ sorted_projects' = Tail(sorted_projects)
    /\ UNCHANGED <<file_data, projects_data, distribution_result, result, proc_pc,
                   point_outcomes, notProcess>>

(* lines 1355-1367: save and return *)
Save ==
    /\ proc_pc = "insert"
    /\ sorted_projects = <<>>
    /\ result' = [success |-> TRUE,
                  modified_content |-> document,
                  points_added |-> total_added,
                  projects_modified |-> distribution_result.projects_used,
                  distribution_details |-> distribution_result.distribution,
                  distribution_method |-> "round_robin"]
    /\ proc_pc' = "done"
    /\ UNCHANGED <<file_data, document, projects_data, distribution_result,
                   sorted_projects, paragraph_offset, total_added,
                   point_outcomes, notProcess>>

NextProcess == LoadAndDetect \/ Distribute \/ InsertProject \/ Save

SpecProcess == InitProcess /\ [][NextProcess]_vars

---------------------------------------------------------------------------
(* Properties of process_document *)

IsOriginal(para) == para.src # -1
Originals(paragraphs) == SelectSeq(paragraphs, IsOriginal)
InsertedAt(paragraphs) == {k \in 1..Len(paragraphs) : paragraphs[k].src = -1}
PositionOf(paragraphs, i) == CHOOSE k \in 1..Len(paragraphs) : paragraphs[k].src = i

(* C5: insertion only adds paragraphs.  While and after the projects are
   processed, the document without the paragraphs the run created is the
   input paragraph sequence (same paragraphs, order and text) and holds as
   many more paragraphs as points were added; so does the returned document
   with the returned points_added.                                         *)
C5_InsertionOnlyAdds ==
    /\ (proc_pc \in {"distribute", "insert"} \/ (proc_pc = "done" /\ result.success)) =>
          /\ ParagraphTexts(Originals(document)) = file_data.file_content
          /\ \A k \in 1..Len(Originals(document)) : Originals(document)[k].src = k - 1
          /\ Len(document) = Len(file_data.file_content) + total_added
    /\ (proc_pc = "done" /\ result.success) =>
          /\ result.modified_content = document
          /\ result.points_added = total_added
          /\ Len(result.modified_content)
                = Len(file_data.file_content) + result.points_added

(* C5 witness: a successful run that added three or more points, for two or
   more projects, at least one of them in front of an input paragraph.     *)
C5_Witness ==
    /\ proc_pc = "done"
    /\ result.success
    /\ result.points_added >= 3
    /\ Cardinality({result.modified_content[k].project :
                       k \in InsertedAt(result.modified_content)}) >= 2
    /\ \E k \in InsertedAt(result.modified_content) :
          /\ k < Len(result.modified_content)
          /\ IsOriginal(result.modified_content[k + 1])

(* The header paragraph of each detected project, from the detector's run
   on the input.                                                           *)
DetectedHeaders ==
    LET paragraphs == file_data.file_content
        h == AfterLoop(RunLoop(DetectorStart, paragraphs, 0), paragraphs).h_entries
    IN [k \in 1..Len(h) |-> h[k].header]

(* C6: every paragraph inserted for a project lies after that project's
   header paragraph and before the header paragraph of the next detected
   project (or the end of the document).                                   *)
C6_InsideOwnSpan ==
    (proc_pc = "done" /\ result.success) =>
        \A k \in InsertedAt(document) :
            LET p == document[k].project + 1
            IN /\ PositionOf(document, DetectedHeaders[p]) < k
               /\ p < Len(DetectedHeaders) =>
                     k < PositionOf(document, DetectedHeaders[p + 1])

(* C23: the projects are processed by increasing insertion_point, and when
   a project is about to be processed its stored insertion_point plus
   paragraph_offset is the position, in the document as it is now, of the
   paragraph the stored index named in the input document.                 *)
C23_OffsetTracksOriginal ==
    (proc_pc = "insert" /\ sorted_projects # <<>>) =>
        LET stored == Head(sorted_projects).val.insertion_point
        IN /\ \A k \in 2..Len(sorted_projects) :
                 stored < sorted_projects[k].val.insertion_point
           /\ stored < Len(file_data.file_content) =>
                 PositionOf(document, stored) - 1 = stored + paragraph_offset

(* The bullet paragraphs of the document at or after index from. *)
BulletsFrom(paragraphs, from) ==
    {i \in 0..(Len(paragraphs) - 1) :
        /\ i >= from
        /\ Strip(paragraphs[i + 1].text) # ""
        /\ _is_bullet_point(paragraphs[i + 1].text)}

(* One call of add_points_to_project seen from outside, for a project with
   a bullet paragraph at or after its adjusted insertion point: the points
   of the project, technology after technology, are the paragraphs
   b+1 .. b+k, all other paragraphs keep their order around them.          *)
AnchoredInsertion ==
    LET project_info == Head(sorted_projects).val
        bullets == BulletsFrom(document, project_info.insertion_point + paragraph_offset)
        b == Min(bullets)
        points == Concat(DictValues(project_info.mixed_tech_stacks))
        k == Len(points)
    IN (proc_pc = "insert" /\ sorted_projects # <<>> /\ bullets # {}) =>
          /\ Len(document') = Len(document) + k
          /\ \A j \in 0..b : document'[j + 1] = document[j + 1]
          /\ \A m \in 1..k :
                /\ document'[b + m + 1].src = -1
                /\ document'[b + m + 1].project = project_info.project_index
                /\ document'[b + m + 1].text = CleanText(points[m])
          /\ \A j \in (b + 1)..(Len(document) - 1) :
                document'[j + k + 1] = document[j + 1]

(* C24: when a project is processed and b is the first bullet paragraph at
   or after its adjusted insertion point, its k points are afterwards the
   paragraphs b+1 .. b+k, one paragraph per point in the assigned order,
   and the paragraphs up to b, b included, are unchanged.                  *)
C24_AnchorPlacement ==
    [][AnchoredInsertion]_vars

(* C24 witness: a project with points of two technologies was inserted
   behind a bullet that is followed by an input paragraph.                 *)
C24_Witness ==
    /\ proc_pc = "insert"
    /\ \E i \in 1..(Len(document) - 3) :
          /\ IsOriginal(document[i])
          /\ _is_bullet_point(document[i].text)
          /\ document[i + 1].src = -1
          /\ document[i + 2].src = -1
          /\ document[i + 1].project = document[i + 2].project
          /\ document[i + 1].text = "p1"
          /\ document[i + 2].text = "j1"
          /\ IsOriginal(document[i + 3])

---------------------------------------------------------------------------
(* find_projects_and_responsibilities, called twice on one document        *)

(* Variant of CallStart in which a call goes on from the locals the call
   before it ended with, as it would if they were kept on the detector.    *)
CallStartKept(previous) ==
    IF previous = <<>> THEN DetectorStart ELSE previous

(* lines 685-690: each call creates its locals anew, whatever the call
   before it (previous) ended with                                         *)
CallStart(previous) ==
    DetectorStart

RepeatDocs == SeqsUpTo(DocTexts, MaxRepeatParas) \cup ScenarioDocs

InitRepeat ==
    /\ rep_doc \in RepeatDocs
    /\ rep_det = [r \in Runs |-> <<>>]
    /\ rep_i = [r \in Runs |-> 0]
    /\ rep_pc = [r \in Runs |-> "call"]
    /\ DistIdle
    /\ ShuffleIdle
    /\ DetectIdle
    /\ ProcessIdle
    /\ FormatIdle
    /\ CallIdle
    /\ BulkIdle
    /\ AddIdle

RepeatCall(r) ==
    /\ rep_pc[r] = "call"
    /\ \A q \in Runs : q < r => rep_pc[q] = "done"    \* the calls follow one another
    /\ rep_det' = [rep_det EXCEPT ![r] = CallStart(IF r = 1 THEN <<>> ELSE rep_det[r - 1])]
    /\ rep_i' = [rep_i EXCEPT ![r] = 0]
    /\ rep_pc' = [rep_pc EXCEPT ![r] = "loop"]
    /\ UNCHANGED <<rep_doc, notRepeat>>

(* one iteration of the paragraph loop: reads rep_doc, writes only locals *)
RepeatRead(r) ==
    /\ rep_pc[r] = "loop"
    /\ rep_i[r] < Len(rep_doc)
    /\ rep_det' = [rep_det EXCEPT ![r] = LoopBody(@, rep_doc, rep_i[r])]
    /\ rep_i' = [rep_i EXCEPT ![r] = @ + 1]
    /\ UNCHANGED <<rep_doc, rep_pc, notRepeat>>

RepeatEnd(r) ==
    /\ rep_pc[r] = "loop"
    /\ rep_i[r] = Len(rep_doc)
    /\ rep_det' = [rep_det EXCEPT ![r] = AfterLoop(@, rep_doc)]
    /\ rep_pc' = [rep_pc EXCEPT ![r] = "done"]
    /\ UNCHANGED <<rep_doc, rep_i, notRepeat>>

NextRepeat == \E r \in Runs : RepeatCall(r) \/ RepeatRead(r) \/ RepeatEnd(r)

SpecRepeat == InitRepeat /\ [][NextRepeat]_vars

(* C11: detection is repeatable and pure.  Two calls on the same paragraph
   sequence return the same list (titles, start and end indices, order),
   which is the value of find_projects_and_responsibilities on it, and no
   step of a call changes a paragraph.                                     *)
C11_RepeatableDetection ==
    /\ [][rep_doc' = rep_doc]_vars
    /\ []((\A r \in Runs : rep_pc[r] = "done") =>
             /\ rep_det[1].projects = rep_det[2].projects
             /\ rep_det[2].projects = find_projects_and_responsibilities(rep_doc))

(* C11 witness: both calls have returned, with two or more projects. *)
C11_Witness ==
    /\ \A r \in Runs : rep_pc[r] = "done"
    /\ Len(rep_det[1].projects) >= 2
    /\ Len(rep_det[2].projects) >= 2

(* C12: a buffer that cannot be loaded gives a returned result (the call
   ends in "done", there is no state in which it has raised) with
   success = false and an error message and nothing else: no modified
   content, no points_added, no distribution, and nothing was detected or
   inserted.  Every result with success = false has no modified content.   *)
C12_LoadFailure ==
    /\ proc_pc \in {"idle", "load", "distribute", "insert", "done"}
    /\ (proc_pc = "done" /\ ~file_data.loadable) =>
          /\ ~result.success
          /\ DOMAIN result = {"success", "error"}
          /\ result.error # ""
          /\ document = <<>>
          /\ total_added = 0
    /\ (proc_pc = "done" /\ ~result.success) =>
          /\ "modified_content" \notin DOMAIN result
          /\ "points_added" \notin DOMAIN result

(* C12 witness: the call has returned for a buffer that is not a document. *)
C12_Witness ==
    /\ proc_pc = "done"
    /\ ~file_data.loadable
    /\ file_data.tech_stacks # <<>>
    /\ ~result.success

(* C13: when the detector finds no project (the empty document and every
   document without a header line among them), its result is the empty
   list, and process_document returns, without raising, the failed result
   with the 'No projects found' message; the document still is the input,
   no point was added and no distribution was made.                        *)
C13_NoProjectsFound ==
    /\ proc_pc \in {"idle", "load", "distribute", "insert", "done"}
    /\ (proc_pc # "load" /\ file_data.loadable
           /\ \A k \in 1..Len(file_data.file_content) :
                  file_data.file_content[k] \notin HeaderTexts) =>
          projects_data = <<>>
    /\ (proc_pc # "load" /\ file_data.loadable /\ projects_data = <<>>) =>
          /\ proc_pc = "done"
          /\ result = [success |-> FALSE, error |-> NoProjectsError]
          /\ ParagraphTexts(document) = file_data.file_content
          /\ \A k \in 1..Len(document) : IsOriginal(document[k])
          /\ total_added = 0
          /\ distribution_result = <<>>

(* C13 witness: a document of bullets under a heading, with points to
   insert, in which no project is found.                                   *)
C13_Witness ==
    /\ proc_pc = "done"
    /\ file_data.loadable
    /\ Len(file_data.file_content) >= 2
    /\ \E k \in 1..Len(file_data.file_content) :
           file_data.file_content[k] \in BulletTexts
    /\ file_data.tech_stacks # <<>>
    /\ projects_data = <<>>
    /\ ~result.success

---------------------------------------------------------------------------
(* add_points_to_project when a call on the document raises                *)

(* How the body of the per-point try of lines 1171-1203 can end:
     "ok"          - line 1200 reached, the point is written and counted;
     "no_paragraph"- insert_paragraph_before / add_paragraph raised
                     (lines 1172-1175), there is no new paragraph;
     "not_written" - the paragraph exists and a later statement raised:
                     paragraph_format (line 1182) or apply_bullet_formatting
                     (line 1199), whose except clause (lines 376-382) runs
                     paragraph.clear() and add_run() outside any try.
   The except clause of lines 1203-1205 logs and goes on to the next point. *)
Outcomes == {"ok", "no_paragraph", "not_written"}

(* the loop of lines 1169-1205 (and 1209-1243), each point ending as
   outcomes says; the position moves down only at line 1201               *)
RECURSIVE InsertPointsRaising(_, _, _, _, _, _, _)
InsertPointsRaising(paragraphs, at, points, project_index, format, outcomes, points_added) ==
    IF points = <<>> THEN [paragraphs |-> paragraphs, points_added |-> points_added]
    ELSE LET new_para == NewParagraph(project_index)
             written == apply_bullet_formatting(new_para, format.formatting,
                                                Head(points), format.fallback_formatting)
         IN CASE Head(outcomes) = "ok" ->
                   InsertPointsRaising(InsertParagraph(paragraphs, at, written), at + 1,
                       Tail(points), project_index, format, Tail(outcomes),
                       points_added + 1)
              [] Head(outcomes) = "no_paragraph" ->
                   InsertPointsRaising(paragraphs, at,
                       Tail(points), project_index, format, Tail(outcomes),
                       points_added)
              [] Head(outcomes) = "not_written" ->
                   InsertPointsRaising(InsertParagraph(paragraphs, at, new_para), at,
                       Tail(points), project_index, format, Tail(outcomes),
                       points_added)

(* add_points_to_project with the outcome of each point given *)
add_points_to_project_raising(paragraphs, project_info, outcomes) ==
    LET format == ResolveFormat(paragraphs, project_info)
        current_insertion_point == project_info.insertion_point
        first_bullet_index == FirstBulletIndex(paragraphs, current_insertion_point)
        points == Concat(DictValues(project_info.mixed_tech_stacks))
        at == IF first_bullet_index < Len(paragraphs)
              THEN first_bullet_index + 1 ELSE current_insertion_point
    IN InsertPointsRaising(paragraphs, at, points, project_info.project_index,
                           format, outcomes, 0)

(* The inputs: the documents of at most MaxFaultParas paragraphs and
   Scenario A, each with every technology map.                             *)
InitInsertFaults ==
    /\ InitProcess
    /\ file_data.loadable
    /\ \/ Len(file_data.file_content) <= MaxFaultParas
       \/ file_data.file_content = ScenarioA

(* lines 1344-1353, one iteration, the outcome of each point chosen freely *)
InsertProjectRaising ==
    /\ proc_pc = "insert"
    /\ sorted_projects # <<>>
    /\ LET project_info == Head(sorted_projects).val
           adjusted_project_info ==
               [project_info EXCEPT
                   !.insertion_point = @ + paragraph_offset,
                   !.responsibilities_end = @ + paragraph_offset]
           n == Len(Concat(DictValues(project_info.mixed_tech_stacks)))
       IN \E outcomes \in [1..n -> Outcomes] :
             LET r == add_points_to_project_raising(document, adjusted_project_info,
                                                    outcomes)
             IN /\ document' = r.paragraphs
                /\ total_added' = total_added + r.points_added
                /\ paragraph_offset' = paragraph_offset + r.points_added
                /\ point_outcomes' = point_outcomes \o outcomes
    /\ sorted_projects' = Tail(sorted_projects)
    /\ UNCHANGED <<file_data, projects_data, distribution_result, result, proc_pc,
                   notProcess>>

NextInsertFaults == LoadAndDetect \/ Distribute \/ InsertProjectRaising \/ Save

SpecInsertFaults == InitInsertFaults /\ [][NextInsertFaults]_vars

(* the points the distribution assigned, over all projects *)
AssignedPoints ==
    Concat([k \in 1..Len(distribution_result.distribution) |->
               Concat(DictValues(distribution_result.distribution[k].val.mixed_tech_stacks))])

(* C14: a failure while inserting one point is confined to that point.
   When the call has returned after a distribution, the result is
   success = true, every assigned point was attempted, points_added is the
   number of points whose insertion went through, and that is the number
   of paragraphs the document gained: no paragraph of the run is left
   without its point.                                                      *)
C14_FailureConfined ==
    (proc_pc = "done" /\ distribution_result # <<>> /\ distribution_result.success) =>
        /\ result.success
        /\ Len(point_outcomes) = Len(AssignedPoints)
        /\ result.points_added = Count("ok", point_outcomes)
        /\ Cardinality({k \in InsertedAt(result.modified_content) :
                           result.modified_content[k].text # ""})
              = result.points_added
        /\ Len(result.modified_content)
              = Len(file_data.file_content) + result.points_added
        /\ \A k \in InsertedAt(result.modified_content) :
              result.modified_content[k].text # ""

---------------------------------------------------------------------------
(* BulletFormatter: get_bullet_formatting on a paragraph, then
   apply_bullet_formatting on a new paragraph, call by call.
   A paragraph here is [runs, style, numId, ilvl, left_indent]: the runs
   are [text, bold] with bold one of None, "True", "False"; numId and ilvl
   are the w:numId and w:ilvl of the paragraph's numPr, -1 without numPr;
   left_indent stands for the attributes of paragraph_format, -1 is None.  *)

(* Paragraph.text of python-docx: the run texts joined *)
RECURSIVE RunsText(_)
RunsText(runs) == IF runs = <<>> THEN "" ELSE Head(runs).text \o RunsText(Tail(runs))

(* doc.add_paragraph() / insert_paragraph_before(): no run, default style *)
EmptyParagraph ==
    [runs |-> <<>>, style |-> "Normal", numId |-> -1, ilvl |-> -1, left_indent |-> -1]

(* formatting.get(key, default) *)
Get(formatting, key, default) ==
    IF key \in DOMAIN formatting THEN formatting[key] ELSE default

(* _extract_list_format of a bullet paragraph, lines 103-158: ilvl is 0 and
   numId is 1
   unless the paragraph has a numPr                                        *)
_extract_list_format(para) ==
    [ilvl |-> IF para.numId = -1 THEN 0 ELSE para.ilvl,
     numId |-> IF para.numId = -1 THEN 1 ELSE para.numId,
     style |-> para.style,
     is_list |-> TRUE]

(* get_bullet_formatting, lines 172-211: the dictionary built for a bullet
   paragraph                                                               *)
formatting_info(para) ==
    [runs_formatting |-> [k \in 1..Len(para.runs) |->
                             [text |-> para.runs[k].text, bold |-> para.runs[k].bold]],
     paragraph_formatting |-> [left_indent |-> para.left_indent],
     style |-> para.style,
     bullet_marker |-> _extract_bullet_marker(RunsText(para.runs)),
     bullet_separator |-> _detect_bullet_separator(RunsText(para.runs)),
     list_format |-> _extract_list_format(para)]

(* get_bullet_formatting, lines 163-169 and 211 *)
GetBulletFormatting(paragraphs, paragraph_index) ==
    IF paragraph_index >= Len(paragraphs) THEN <<>>
    ELSE LET para == paragraphs[paragraph_index + 1]
         IN IF ~_is_bullet_point(RunsText(para.runs)) THEN <<>>
            ELSE <<formatting_info(para)>>

(* The calls on the paragraph that may raise.  Those of the first line are
   made inside an inner try of apply_bullet_formatting (lines 331-334,
   340-344, 348-353, 367-373) and are passed over; those of the second are
   made in the outer try only (lines 338, 357, 358); those of the third in
   the except clause (lines 378, 382), under no try.                       *)
SwallowedCalls == {"style", "attributes", "numbering", "run_font"}
TryCalls == {"paragraph_format", "clear", "add_run"}
ExceptCalls == {"clear_again", "add_run_again"}
RaisingCalls == SwallowedCalls \cup TryCalls \cup ExceptCalls

(* line 327-328: "if not formatting and fallback_formatting" *)
Effective(formatting, fallback_formatting) ==
    IF formatting = <<>> /\ fallback_formatting # <<>>
    THEN fallback_formatting ELSE formatting

(* Variant of TryBody that writes the marker and the separator in front of
   the text, as the except clause does.                                    *)
TryBodyWithMarker(paragraph, formatting, text, raises) ==
    [raised |-> FALSE,
     paragraph |-> [paragraph EXCEPT !.runs =
        <<[text |-> (IF formatting = <<>> THEN U2022
                     ELSE Get(formatting[1], "bullet_marker", U2022))
                    \o (IF formatting = <<>> THEN "\t"
                        ELSE Get(formatting[1], "bullet_separator", "\t"))
                    \o CleanText(text),
           bold |-> None]>>]]

(* lines 330-373, the body of the try after the choice of the format:
   the paragraph as the body leaves it, and whether it raised              *)
TryBody(paragraph, formatting, text, raises) ==
    LET style == IF formatting = <<>> THEN None ELSE Get(formatting[1], "style", None)
        p1 == IF style # None /\ "style" \notin raises
              THEN [paragraph EXCEPT !.style = style] ELSE paragraph
        pf_data == IF formatting = <<>> THEN [left_indent |-> -1]
                   ELSE Get(formatting[1], "paragraph_formatting", [left_indent |-> -1])
        p2 == IF pf_data.left_indent # -1 /\ "attributes" \notin raises
              THEN [p1 EXCEPT !.left_indent = pf_data.left_indent] ELSE p1
        list_format == IF formatting = <<>> THEN <<>>
                       ELSE Get(formatting[1], "list_format", <<>>)
        p3 == IF list_format # <<>> /\ "numbering" \notin raises
              THEN [p2 EXCEPT !.numId = list_format.numId,
                              !.ilvl = list_format.ilvl] ELSE p2
        clean_text == CleanText(text)
        p4 == [p3 EXCEPT !.runs = <<>>]
        p5 == [p4 EXCEPT !.runs = <<[text |-> clean_text, bold |-> None]>>]
        runs_formatting == IF formatting = <<>> THEN <<>>
                           ELSE Get(formatting[1], "runs_formatting", <<>>)
        p6 == IF /\ runs_formatting # <<>>
                 /\ runs_formatting[1].bold # None
                 /\ "run_font" \notin raises
              THEN [p5 EXCEPT !.runs[1].bold = runs_formatting[1].bold] ELSE p5
    IN IF "paragraph_format" \in raises THEN [raised |-> TRUE, paragraph |-> p1]
       ELSE IF "clear" \in raises THEN [raised |-> TRUE, paragraph |-> p3]
       ELSE IF "add_run" \in raises THEN [raised |-> TRUE, paragraph |-> p4]
       ELSE [raised |-> FALSE, paragraph |-> p6]

(* lines 376-382, the except clause *)
ExceptBody(paragraph, formatting, text, raises) ==
    LET marker == IF formatting = <<>> THEN U2022
                  ELSE Get(formatting[1], "bullet_marker", U2022)
        separator == IF formatting = <<>> THEN "\t"
                     ELSE Get(formatting[1], "bullet_separator", "\t")
        clean_text == CleanText(text)
        p1 == [paragraph EXCEPT !.runs = <<>>]
        p2 == [p1 EXCEPT !.runs = <<[text |-> marker \o separator \o clean_text,
                                     bold |-> None]>>]
    IN IF "clear_again" \in raises THEN [raised |-> TRUE, paragraph |-> paragraph]
       ELSE IF "add_run_again" \in raises THEN [raised |-> TRUE, paragraph |-> p1]
       ELSE [raised |-> FALSE, paragraph |-> p2]

(* The source paragraphs *)
BoldBullet ==
    [runs |-> <<[text |-> U2022 \o "\tDesigned schemas", bold |-> "True"]>>,
     style |-> "Normal", numId |-> -1, ilvl |-> -1, left_indent |-> 360]
BoldListBullet == [BoldBullet EXCEPT !.numId = 2, !.ilvl = 1, !.style = "List Bullet"]
MarkerRunBullet ==
    [runs |-> <<[text |-> U2022 \o "\t", bold |-> None],
                [text |-> "Designed schemas", bold |-> "True"]>>,
     style |-> "Normal", numId |-> -1, ilvl |-> -1, left_indent |-> -1]
PlainParagraph(text) ==
    [runs |-> IF text = "" THEN <<>> ELSE <<[text |-> text, bold |-> None]>>,
     style |-> "Normal", numId |-> -1, ilvl |-> -1, left_indent |-> -1]
SourceTexts ==
    {U2022 \o " Test bullet", "- Test bullet", "* Test bullet", "1. Test bullet",
     "Just text", "", "-based design", "100. Shipped it", U2022 \o "\tTest bullet"}
FormatSources ==
    {BoldBullet, BoldListBullet, MarkerRunBullet}
        \cup {PlainParagraph(t) : t \in SourceTexts}

(* the fallback add_points_to_project builds when the section has no
   bullet, lines 1146-1152, with the dash as the document's marker         *)
DocumentFallback ==
    [bullet_marker |-> "-", bullet_separator |-> "\t", style |-> None,
     paragraph_formatting |-> [left_indent |-> -1], runs_formatting |-> <<>>]

FormatPoints == {"Built an API", "- Built an API"}

(* the numbering part of the document: the label Word draws for a numId,
   "" when the document defines no such list                               *)
NumIds == {1, 2}
Numberings == [NumIds -> {"", U2022}]

InitFormat ==
    /\ fmt_in \in
          {[paragraphs |-> ps, paragraph_index |-> 0, text |-> t,
            fallback_formatting |-> fb, numbering |-> nb, raises |-> r] :
              ps \in {<<>>} \cup {<<para>> : para \in FormatSources},
              t \in FormatPoints,
              fb \in {<<>>, <<DocumentFallback>>},
              nb \in Numberings,
              r \in {x \in SUBSET RaisingCalls : Cardinality(x) <= MaxRaising}}
    /\ fmt_formatting = <<>>
    /\ fmt_para = EmptyParagraph
    /\ fmt_pc = "extract"
    /\ DistIdle
    /\ ShuffleIdle
    /\ DetectIdle
    /\ ProcessIdle
    /\ RepeatIdle
    /\ CallIdle
    /\ BulkIdle
    /\ AddIdle

(* formatting = get_bullet_formatting(doc, paragraph_index) *)
FormatExtract ==
    /\ fmt_pc = "extract"
    /\ fmt_formatting' = GetBulletFormatting(fmt_in.paragraphs, fmt_in.paragraph_index)
    /\ fmt_pc' = "try"
    /\ UNCHANGED <<fmt_in, fmt_para, notFormat>>

(* apply_bullet_formatting(new_para, formatting, text, fallback), the try *)
FormatTry ==
    /\ fmt_pc = "try"
    /\ LET formatting == Effective(fmt_formatting, fmt_in.fallback_formatting)
           r == TryBody(fmt_para, formatting, fmt_in.text, fmt_in.raises)
       IN /\ fmt_formatting' = formatting
          /\ fmt_para' = r.paragraph
          /\ fmt_pc' = IF r.raised THEN "except" ELSE "returned"
    /\ UNCHANGED <<fmt_in, notFormat>>

(* apply_bullet_formatting, the except clause *)
FormatExcept ==
    /\ fmt_pc = "except"
    /\ LET r == ExceptBody(fmt_para, fmt_formatting, fmt_in.text, fmt_in.raises)
       IN /\ fmt_para' = r.paragraph
          /\ fmt_pc' = IF r.raised THEN "raised" ELSE "returned"
    /\ UNCHANGED <<fmt_in, fmt_formatting, notFormat>>

NextFormat == FormatExtract \/ FormatTry \/ FormatExcept

SpecFormat == InitFormat /\ [][NextFormat]_vars

---------------------------------------------------------------------------
(* Properties of the BulletFormatter *)

(* The line Word draws for a paragraph: the label of the list the
   paragraph is linked to, a tab, and the text of the runs.                *)
RenderedLine(para, numbering) ==
    LET label == IF para.numId \in DOMAIN numbering THEN numbering[para.numId] ELSE ""
    IN (IF label = "" THEN "" ELSE label \o "\t") \o RunsText(para.runs)

(* the source is a bullet paragraph with marker U+2022, a tab and a bold
   first run, and no call raises                                           *)
RoundTripCase ==
    /\ fmt_in.paragraphs # <<>>
    /\ StartsWith(RunsText(fmt_in.paragraphs[1].runs), U2022 \o "\t")
    /\ fmt_in.paragraphs[1].runs[1].bold = "True"
    /\ fmt_in.text = "Built an API"
    /\ fmt_in.raises = {}

(* C15: format round trip.  The descriptor extracted from a bullet
   paragraph with marker U+2022, tab separator and bold first run, applied
   to a new paragraph with the text "Built an API", gives a paragraph whose
   cleaned text is "Built an API", whose first run is bold and whose
   rendered line starts with U+2022 and a tab.                             *)
C15_FormatRoundTrip ==
    (fmt_pc = "returned" /\ RoundTripCase) =>
        /\ fmt_formatting # <<>>
        /\ fmt_formatting[1].bullet_marker = U2022
        /\ fmt_formatting[1].bullet_separator = "\t"
        /\ CleanText(RunsText(fmt_para.runs)) = "Built an API"
        /\ fmt_para.runs[1].bold = "True"
        /\ StartsWith(RenderedLine(fmt_para, fmt_in.numbering), U2022 \o "\t")

(* the marker and the separator of the format in use, with the defaults of
   lines 379-380                                                           *)
MarkerInUse ==
    IF fmt_formatting = <<>> THEN U2022 ELSE Get(fmt_formatting[1], "bullet_marker", U2022)
SeparatorInUse ==
    IF fmt_formatting = <<>> THEN "\t" ELSE Get(fmt_formatting[1], "bullet_separator", "\t")

(* C16: apply_bullet_formatting never raises, whichever call on the
   paragraph fails; once it has returned the paragraph holds the cleaned
   point text; and when the normal path failed the paragraph holds exactly
   one plain run with the text marker + separator + cleaned text.          *)
C16_ApplyNeverRaises ==
    /\ fmt_pc # "raised"
    /\ fmt_pc = "returned" =>
          Contains(RunsText(fmt_para.runs), CleanText(fmt_in.text))
    /\ (fmt_pc = "returned" /\ fmt_in.raises \cap TryCalls # {}) =>
          fmt_para.runs = <<[text |-> MarkerInUse \o SeparatorInUse
                                         \o CleanText(fmt_in.text),
                             bold |-> None]>>

(* C17: the format is chosen by precedence: the descriptor when there is
   one, else the fallback, else the default; with neither descriptor nor
   fallback the new paragraph is written with U+2022 and a tab in front of
   the point text.                                                         *)
C17_FormatPrecedence ==
    (fmt_pc = "returned" /\ fmt_in.raises = {}) =>
        LET descriptor == GetBulletFormatting(fmt_in.paragraphs, fmt_in.paragraph_index)
        IN /\ descriptor # <<>> => fmt_formatting = descriptor
           /\ (descriptor = <<>> /\ fmt_in.fallback_formatting # <<>>) =>
                 fmt_formatting = fmt_in.fallback_formatting
           /\ (descriptor = <<>> /\ fmt_in.fallback_formatting = <<>>) =>
                 /\ fmt_formatting = <<>>
                 /\ RunsText(fmt_para.runs)
                       = U2022 \o "\t" \o CleanText(fmt_in.text)

(* the bullet predicate as stated: after trimming, a marker glyph followed
   by a tab or a space, or one or more digits followed by "."              *)
StatedBullet(text) ==
    LET t == Strip(text)
    IN \/ \E k \in 1..Len(all_markers) :
             StartsWith(t, all_markers[k] \o "\t") \/ StartsWith(t, all_markers[k] \o " ")
       \/ \E n \in 1..(Len(t) - 1) : AllDigits(t, 1, n) /\ Ch(t, n + 1) = "."

(* C18: get_bullet_formatting returns None exactly for the paragraphs that
   are not bullets under the stated predicate; the four "Test bullet"
   lines are bullets, "Just text" and the empty text are not.              *)
C18_NullExactlyForNonBullets ==
    (fmt_pc = "try" /\ fmt_in.paragraphs # <<>>) =>
        LET text == RunsText(fmt_in.paragraphs[1].runs)
        IN /\ (fmt_formatting = <<>>) <=> ~StatedBullet(text)
           /\ text \in {U2022 \o " Test bullet", "- Test bullet", "* Test bullet",
                        "1. Test bullet"} => fmt_formatting # <<>>
           /\ text \in {"Just text", ""} => fmt_formatting = <<>>

(* C29: after a call in which nothing raised, with a descriptor taken from
   a bullet paragraph, the written paragraph has a numbering linkage
   exactly when that paragraph had one, with the same list id and level,
   and the descriptor of a paragraph without linkage holds no list id.     *)
C29_NumberingCarriedOver ==
    (/\ fmt_pc = "returned"
     /\ fmt_in.raises = {}
     /\ GetBulletFormatting(fmt_in.paragraphs, fmt_in.paragraph_index) # <<>>)
    => LET source == fmt_in.paragraphs[fmt_in.paragraph_index + 1]
       IN /\ (fmt_para.numId # -1) <=> (source.numId # -1)
          /\ fmt_para.numId = source.numId
          /\ fmt_para.ilvl = source.ilvl
          /\ source.numId = -1 => fmt_formatting[1].list_format.numId = -1

---------------------------------------------------------------------------
(* PointDistributor.distribute_points_to_projects, one call, with the
   technology data as a dict or as the pair (selected_points, tech_names).
   tech_stacks_data is [kind |-> "dict", dict |-> d] or
   [kind |-> "pair", selected_points |-> ps, tech_names |-> ns].           *)

(* lines 993-1005: the dict made from the pair.  The points are cut into
   consecutive runs, one run per name, the first len % n names getting one
   point more.                                                             *)
RECURSIVE PairToTechStacks(_, _, _, _)
PairToTechStacks(selected_points, tech_names, i, acc) ==
    IF i >= Len(tech_names) THEN acc.tech_stacks
    ELSE LET points_per_tech == Len(selected_points) \div Len(tech_names)
             remaining_points == Len(selected_points) % Len(tech_names)
             points_for_tech == points_per_tech + (IF i < remaining_points THEN 1 ELSE 0)
         IN IF points_for_tech > 0
            THEN PairToTechStacks(selected_points, tech_names, i + 1,
                    [tech_stacks |->
                        DictPut(acc.tech_stacks, tech_names[i + 1],
                                SubSeq(selected_points, acc.current_index + 1,
                                       acc.current_index + points_for_tech)),
                     current_index |-> acc.current_index + points_for_tech])
            ELSE PairToTechStacks(selected_points, tech_names, i + 1, acc)

(* distribute_points_to_projects, lines 980-1035 *)
DistributeAny(projects, tech_stacks_data) ==
    IF tech_stacks_data.kind = "dict"
    THEN distribute_points_to_projects(projects, tech_stacks_data.dict)
    ELSE IF projects = <<>>
    THEN [success |-> FALSE, error |-> "No projects or tech stacks found"]
    ELSE IF tech_stacks_data.selected_points = <<>> \/ tech_stacks_data.tech_names = <<>>
    THEN [success |-> FALSE, error |-> "No valid tech stacks found"]
    ELSE distribute_points_to_projects(projects,
             PairToTechStacks(tech_stacks_data.selected_points,
                              tech_stacks_data.tech_names, 0,
                              [tech_stacks |-> <<>>, current_index |-> 0]))

(* The inputs *)
ProjectTitles == {"Acme", "Beta"}
DistinctTitles == <<"Acme", "Beta", "Gamma", "Delta", "Epsilon", "Zeta">>
ProjectLists ==
    {[k \in 1..Len(titles) |->
         [title |-> titles[k], index |-> k - 1,
          responsibilities_start |-> 2 * k, responsibilities_end |-> 2 * k]] :
        titles \in SeqsUpTo(ProjectTitles, MaxProjects)}
        \cup {[k \in 1..MaxProjects |->
                 [title |-> IF k <= Len(DistinctTitles) THEN DistinctTitles[k] ELSE "Acme",
                  index |-> k - 1,
                  responsibilities_start |-> 2 * k, responsibilities_end |-> 2 * k]]}
PairPoints == {"Built Python API", "Tuned Java GC", "Wrote docs"}
PairNames == {<<>>, <<"Python">>, <<"Java", "Python">>, <<"Python", "Java">>}
TechStacksData ==
    {[kind |-> "dict", dict |-> d] : d \in ProcessTechStacks}
        \cup {[kind |-> "pair", selected_points |-> ps, tech_names |-> ns] :
                 ps \in SeqsUpTo(PairPoints, MaxPairPoints), ns \in PairNames}

InitCall ==
    /\ call_args \in {[projects |-> ps, tech_stacks_data |-> d] :
                         ps \in ProjectLists, d \in TechStacksData}
    /\ call_result = <<>>
    /\ call_pc = "call"
    /\ DistIdle
    /\ ShuffleIdle
    /\ DetectIdle
    /\ ProcessIdle
    /\ RepeatIdle
    /\ FormatIdle
    /\ BulkIdle
    /\ AddIdle

DistributeCall ==
    /\ call_pc = "call"
    /\ call_result' = DistributeAny(call_args.projects, call_args.tech_stacks_data)
    /\ call_pc' = "done"
    /\ UNCHANGED <<call_args, notCall>>

NextCall == DistributeCall

SpecCall == InitCall /\ [][NextCall]_vars

(* the pairs (technology, point) of the returned distribution *)
GroupedPairs ==
    UNION {UNION {{[tech |-> call_result.distribution[e].val.mixed_tech_stacks[t].key,
                    point |-> call_result.distribution[e].val.mixed_tech_stacks[t].val[k]] :
                      k \in 1..Len(call_result.distribution[e].val.mixed_tech_stacks[t].val)} :
                  t \in 1..Len(call_result.distribution[e].val.mixed_tech_stacks)} :
              e \in 1..Len(call_result.distribution)}

(* C19: with the technology data given as the pair (points,
   technology_names), every point is grouped under a technology whose name
   occurs in the point's text, and no point under a technology whose name
   does not occur in it.                                                   *)
C19_PairGroupedBySubstring ==
    (call_pc = "done" /\ call_args.tech_stacks_data.kind = "pair"
        /\ call_result.success) =>
        \A g \in GroupedPairs : Contains(g.point, g.tech)

(* C20: only the first three projects, in document order, are used: the
   distribution has at most three entries, they are the first three
   projects (all of them when there are three or fewer), no project of
   index 3 or more gets a point, and without projects the call returns a
   result that is no success and holds no distribution.                    *)
C20_TopThreeProjects ==
    call_pc = "done" =>
        LET projects == call_args.projects
            top == IF Len(projects) < 3 THEN Len(projects) ELSE 3
        IN /\ projects = <<>> =>
                 /\ ~call_result.success
                 /\ "distribution" \notin DOMAIN call_result
           /\ call_result.success =>
                 /\ Len(call_result.distribution) <= 3
                 /\ call_result.projects_used <= 3
                 /\ DictKeys(call_result.distribution)
                       = {projects[k].title : k \in 1..top}
                 /\ \A e \in 1..Len(call_result.distribution) :
                       /\ call_result.distribution[e].val.project_index < 3
                       /\ call_result.distribution[e].val.project_index < Len(projects)
                       /\ projects[call_result.distribution[e].val.project_index + 1].title
                             = call_result.distribution[e].key

(* C20 witness: five projects and points enough for each of them; the call
   returned three entries with points.                                     *)
C20_Witness ==
    /\ call_pc = "done"
    /\ Len(call_args.projects) = MaxProjects
    /\ call_result.success
    /\ Len(call_result.distribution) = 3
    /\ call_result.points_added >= 4
    /\ \A e \in 1..3 : call_result.distribution[e].val.total_points >= 1

(* C30: a successful call returns one distribution entry per target
   project, projects_used is min(3, number of projects), and points_added
   is the sum of total_points over the entries of the returned map.        *)
C30_EntriesMatchCounts ==
    (call_pc = "done" /\ call_result.success) =>
        LET projects == call_args.projects
            top == IF Len(projects) < 3 THEN Len(projects) ELSE 3
        IN /\ Len(call_result.distribution) = top
           /\ call_result.projects_used = top
           /\ call_result.points_added
                 = SumSeq([e \in 1..Len(call_result.distribution) |->
                              call_result.distribution[e].val.total_points])

---------------------------------------------------------------------------
(* BulkResumeProcessor.process_resumes_bulk (src/resume_processor.py): the
   files are submitted to a pool of max_workers threads, each thread runs
   ResumeProcessor.process_single_resume on one file at a time, and the
   calling thread collects the futures as they complete.
   A file is [filename, loadable, paragraphs, parsed]: loadable tells
   whether Document(file_obj) accepts it, paragraphs are its paragraph
   texts, parsed is what text_parser.parse_tech_stacks returns for its
   text, the pair [selected_points, tech_names].                           *)

(* Variant of SlotOf in which every pipeline works on one Document object. *)
SlotShared(i) ==
    1

(* resume_processor.py line 63: "doc = Document(file_obj)" is a local of
   the call: the pipeline of file i has the object in slot i               *)
SlotOf(i) ==
    i

(* lines 97-113: the projects in the order of their insertion points, each
   with the offset of the points added before it                           *)
RECURSIVE AddAllPoints(_, _, _, _)
AddAllPoints(paragraphs, sorted, offset, added) ==
    IF sorted = <<>> THEN [paragraphs |-> paragraphs, points_added |-> added]
    ELSE LET project_info == Head(sorted).val
             adjusted_project_info ==
                 [project_info EXCEPT
                     !.insertion_point = @ + offset,
                     !.responsibilities_end = @ + offset]
             r == add_points_to_project(paragraphs, adjusted_project_info)
         IN AddAllPoints(r.paragraphs, Tail(sorted), offset + r.points_added,
                         added + r.points_added)

(* lines 64-71: detection found nothing *)
NoProjectsResult(file) ==
    [success |-> FALSE,
     error |-> "No projects found in " \o file.filename
                  \o ". Ensure your resume has project sections.",
     filename |-> file.filename]

(* lines 50-58: parsing found nothing *)
NoTechStacksResult(file) ==
    [success |-> FALSE,
     error |-> "Could not parse tech stacks for " \o file.filename
                  \o ". Please check your input format.",
     filename |-> file.filename]

(* lines 129-134: "except Exception as e" *)
SingleExceptionResult(file, error) ==
    [success |-> FALSE, error |-> error, filename |-> file.filename]

(* lines 116-127: the result of a file that was written *)
SuccessResult(file, inserted) ==
    [success |-> TRUE,
     filename |-> file.filename,
     buffer |-> inserted.paragraphs,
     tech_stacks |-> file.parsed.tech_names,
     points_added |-> inserted.points_added]

(* the locals of one call of process_single_resume *)
NoLocals ==
    [doc |-> <<>>, projects |-> <<>>, distribution_result |-> <<>>,
     inserted |-> <<>>]

(* The input files *)
GoodFile ==
    [filename |-> "a.docx", loadable |-> TRUE,
     paragraphs |-> <<HeaderText, BulletText, Header2Text, DashBulletText>>,
     parsed |-> [selected_points |-> <<"p1", "p2", "j1">>,
                 tech_names |-> <<"Python", "Java">>]]
SmallFile ==
    [filename |-> "b.docx", loadable |-> TRUE,
     paragraphs |-> <<Header3Text, BulletText>>,
     parsed |-> [selected_points |-> <<"q1">>, tech_names |-> <<"Go">>]]
HeaderlessFile ==
    [filename |-> "c.docx", loadable |-> TRUE, paragraphs |-> <<BulletText>>,
     parsed |-> [selected_points |-> <<"q1">>, tech_names |-> <<"Go">>]]
BrokenFile ==
    [filename |-> "d.docx", loadable |-> FALSE, paragraphs |-> <<>>,
     parsed |-> [selected_points |-> <<"q1">>, tech_names |-> <<"Go">>]]
NoTechFile ==
    [filename |-> "e.docx", loadable |-> TRUE,
     paragraphs |-> <<HeaderText, BulletText>>,
     parsed |-> [selected_points |-> <<>>, tech_names |-> <<>>]]
BulkFiles == {GoodFile, SmallFile, HeaderlessFile, BrokenFile, NoTechFile}

max_workers_default == 4

(* the steps of a call that a thread of the pool is running *)
WorkerSteps == {"load", "detect", "distribute", "insert"}

InitBulk ==
    /\ files_data \in SeqsUpTo(BulkFiles, MaxFiles)
    /\ max_workers \in 0..MaxWorkers
    /\ bulk_docs = [i \in 1..Len(files_data) |-> NoLocals]
    /\ bulk_pc = [i \in 1..Len(files_data) |-> "queued"]
    /\ bulk_results = [i \in 1..Len(files_data) |-> <<>>]
    /\ processed_resumes = <<>>
    /\ failed_resumes = <<>>
    /\ bulk_main = "submit"
    /\ DistIdle
    /\ ShuffleIdle
    /\ DetectIdle
    /\ ProcessIdle
    /\ RepeatIdle
    /\ FormatIdle
    /\ CallIdle
    /\ AddIdle

(* lines 189-190: "if max_workers is None: max_workers = min(default, n)" *)
PoolSize ==
    IF max_workers = 0
    THEN (IF Len(files_data) < max_workers_default
          THEN Len(files_data) ELSE max_workers_default)
    ELSE max_workers

Running == {i \in 1..Len(files_data) : bulk_pc[i] \in WorkerSteps}

(* lines 201-206: the pool is made (ThreadPoolExecutor raises ValueError
   for max_workers = 0) and every file is submitted                        *)
BulkSubmit ==
    /\ bulk_main = "submit"
    /\ bulk_main' = IF PoolSize <= 0 THEN "raised" ELSE "collect"
    /\ UNCHANGED <<files_data, max_workers, bulk_docs, bulk_pc, bulk_results,
                   processed_resumes, failed_resumes, notBulk>>

(* a free thread of the pool takes the next queued call;
   process_single_resume lines 50-58: it parses the text                   *)
WorkerStart(i) ==
    /\ bulk_main = "collect"
    /\ bulk_pc[i] = "queued"
    /\ \A j \in 1..(i - 1) : bulk_pc[j] # "queued"
    /\ Cardinality(Running) < PoolSize
    /\ IF files_data[i].parsed.selected_points = <<>>
          \/ files_data[i].parsed.tech_names = <<>>
       THEN /\ bulk_results' = [bulk_results EXCEPT ![i] =
                                   NoTechStacksResult(files_data[i])]
            /\ bulk_pc' = [bulk_pc EXCEPT ![i] = "finished"]
       ELSE /\ bulk_pc' = [bulk_pc EXCEPT ![i] = "load"]
            /\ UNCHANGED bulk_results
    /\ UNCHANGED <<files_data, max_workers, bulk_docs, processed_resumes,
                   failed_resumes, bulk_main, notBulk>>

(* line 63: doc = Document(file_obj); lines 129-134 when it raises *)
WorkerLoad(i) ==
    /\ bulk_pc[i] = "load"
    /\ IF ~files_data[i].loadable
       THEN /\ bulk_results' = [bulk_results EXCEPT ![i] =
                   SingleExceptionResult(files_data[i], "not a valid document")]
            /\ bulk_pc' = [bulk_pc EXCEPT ![i] = "finished"]
            /\ UNCHANGED bulk_docs
       ELSE /\ bulk_docs' = [bulk_docs EXCEPT ![SlotOf(i)].doc =
                   [k \in 1..Len(files_data[i].paragraphs) |->
                       InputParagraph(files_data[i].paragraphs[k], k - 1)]]
            /\ bulk_pc' = [bulk_pc EXCEPT ![i] = "detect"]
            /\ UNCHANGED bulk_results
    /\ UNCHANGED <<files_data, max_workers, processed_resumes, failed_resumes,
                   bulk_main, notBulk>>

(* lines 64-71: projects = find_projects_and_responsibilities(doc) *)
WorkerDetect(i) ==
    /\ bulk_pc[i] = "detect"
    /\ bulk_docs' = [bulk_docs EXCEPT ![SlotOf(i)].projects =
          find_projects_and_responsibilities(ParagraphTexts(bulk_docs[SlotOf(i)].doc))]
    /\ IF bulk_docs'[SlotOf(i)].projects = <<>>
       THEN /\ bulk_results' = [bulk_results EXCEPT ![i] =
                                   NoProjectsResult(files_data[i])]
            /\ bulk_pc' = [bulk_pc EXCEPT ![i] = "finished"]
       ELSE /\ bulk_pc' = [bulk_pc EXCEPT ![i] = "distribute"]
            /\ UNCHANGED bulk_results
    /\ UNCHANGED <<files_data, max_workers, processed_resumes, failed_resumes,
                   bulk_main, notBulk>>

(* lines 73-92: structure the projects and distribute the points *)
WorkerDistribute(i) ==
    /\ bulk_pc[i] = "distribute"
    /\ bulk_docs' = [bulk_docs EXCEPT ![SlotOf(i)].distribution_result =
          DistributeAny(StructuredProjects(bulk_docs[SlotOf(i)].projects),
              [kind |-> "pair",
               selected_points |-> files_data[i].parsed.selected_points,
               tech_names |-> files_data[i].parsed.tech_names])]
    /\ IF ~bulk_docs'[SlotOf(i)].distribution_result.success
       THEN /\ bulk_results' = [bulk_results EXCEPT ![i] =
                                   bulk_docs'[SlotOf(i)].distribution_result]
            /\ bulk_pc' = [bulk_pc EXCEPT ![i] = "finished"]
       ELSE /\ bulk_pc' = [bulk_pc EXCEPT ![i] = "insert"]
            /\ UNCHANGED bulk_results
    /\ UNCHANGED <<files_data, max_workers, processed_resumes, failed_resumes,
                   bulk_main, notBulk>>

(* lines 94-127: the points are added to doc, project after project, and
   doc is saved into the buffer of the result                              *)
WorkerInsert(i) ==
    /\ bulk_pc[i] = "insert"
    /\ bulk_docs' = [bulk_docs EXCEPT ![SlotOf(i)].inserted =
          AddAllPoints(bulk_docs[SlotOf(i)].doc,
              SortedByInsertionPoint(
                  bulk_docs[SlotOf(i)].distribution_result.distribution), 0, 0)]
    /\ bulk_results' = [bulk_results EXCEPT ![i] =
          SuccessResult(files_data[i], bulk_docs'[SlotOf(i)].inserted)]
    /\ bulk_pc' = [bulk_pc EXCEPT ![i] = "finished"]
    /\ UNCHANGED <<files_data, max_workers, processed_resumes, failed_resumes,
                   bulk_main, notBulk>>

(* lines 209-222: "for future in as_completed(...)": one completed future *)
Collect(i) ==
    /\ bulk_main = "collect"
    /\ bulk_pc[i] = "finished"
    /\ IF bulk_results[i].success
       THEN /\ processed_resumes' = Append(processed_resumes, bulk_results[i])
            /\ UNCHANGED failed_resumes
       ELSE /\ failed_resumes' = Append(failed_resumes, bulk_results[i])
            /\ UNCHANGED processed_resumes
    /\ bulk_pc' = [bulk_pc EXCEPT ![i] = "collected"]
    /\ UNCHANGED <<files_data, max_workers, bulk_docs, bulk_results, bulk_main,
                   notBulk>>

(* lines 224-227: every future was collected *)
BulkReturn ==
    /\ bulk_main = "collect"
    /\ \A i \in 1..Len(files_data) : bulk_pc[i] = "collected"
    /\ bulk_main' = "returned"
    /\ UNCHANGED <<files_data, max_workers, bulk_docs, bulk_pc, bulk_results,
                   processed_resumes, failed_resumes, notBulk>>

NextBulk ==
    \/ BulkSubmit
    \/ \E i \in 1..Len(files_data) :
          \/ WorkerStart(i)
          \/ WorkerLoad(i)
          \/ WorkerDetect(i)
          \/ WorkerDistribute(i)
          \/ WorkerInsert(i)
          \/ Collect(i)
    \/ BulkReturn

SpecBulk == InitBulk /\ [][NextBulk]_vars

(* process_single_resume on one file alone *)
AloneProjects(file) ==
    find_projects_and_responsibilities(file.paragraphs)
AloneDistribution(file, projects_found) ==
    DistributeAny(StructuredProjects(projects_found),
        [kind |-> "pair",
         selected_points |-> file.parsed.selected_points,
         tech_names |-> file.parsed.tech_names])
AloneInserted(file, distribution) ==
    IF ~distribution.success THEN distribution
    ELSE SuccessResult(file,
             AddAllPoints([k \in 1..Len(file.paragraphs) |->
                              InputParagraph(file.paragraphs[k], k - 1)],
                          SortedByInsertionPoint(distribution.distribution), 0, 0))
AloneDetected(file, projects_found) ==
    IF projects_found = <<>> THEN NoProjectsResult(file)
    ELSE AloneInserted(file, AloneDistribution(file, projects_found))
AloneResult(file) ==
    IF file.parsed.selected_points = <<>> \/ file.parsed.tech_names = <<>>
    THEN NoTechStacksResult(file)
    ELSE IF ~file.loadable
    THEN SingleExceptionResult(file, "not a valid document")
    ELSE AloneDetected(file, AloneProjects(file))

(* process_single_resume on each of the files alone *)
AloneResults == [f \in BulkFiles |-> AloneResult(f)]

(* C21: in every interleaving of the workers each submitted file gives
   exactly one result, in exactly one of the two lists, the lists together
   hold as many results as there are files, and the result of a file is the
   one the file gives when processed alone: it depends on the file's own
   document and text only.                                                 *)
C21_BulkIsolation ==
    /\ Len(processed_resumes) + Len(failed_resumes)
          = Cardinality({i \in DOMAIN bulk_pc : bulk_pc[i] = "collected"})
    /\ \A k \in 1..Len(processed_resumes) : processed_resumes[k].success
    /\ \A k \in 1..Len(failed_resumes) : ~failed_resumes[k].success
    /\ \A i \in DOMAIN bulk_pc :
          bulk_pc[i] \in {"finished", "collected"} =>
              bulk_results[i] = AloneResults[files_data[i]]
    /\ bulk_main = "returned" =>
          /\ Len(processed_resumes) + Len(failed_resumes) = Len(files_data)
          /\ \A f \in BulkFiles :
                Count(f, files_data)
                   = Count(AloneResults[f], processed_resumes)
                        + Count(AloneResults[f], failed_resumes)

(* C21 witness: two files that are both written ran in a pool of two or
   more threads and the call has returned with the second file collected
   before the first: the two pipelines overlapped.                         *)
C21_Witness ==
    /\ bulk_main = "returned"
    /\ files_data = <<GoodFile, SmallFile>>
    /\ PoolSize >= 2
    /\ Len(processed_resumes) = 2
    /\ processed_resumes[1].filename = SmallFile.filename
    /\ processed_resumes[2].filename = GoodFile.filename

---------------------------------------------------------------------------
(* DocumentProcessor.add_points_to_project, one call on a document long
   enough for paragraphs to lie outside the search window of lines
   1109-1110: some leading paragraphs, a run of empty paragraphs, and the
   paragraphs next to the insertion point.                                 *)

TabBulletText == "-\tShipped releases"
NumberedText == "1. Led team"
AddTexts == {BulletText, DashBulletText, TabBulletText, NumberedText, PlainText}

EmptyParagraphs(k) == [j \in 1..k |-> ""]

AddDocs ==
    {lead \o EmptyParagraphs(k) \o near :
        lead \in SeqsUpTo(AddTexts, MaxLeadParas),
        k \in 0..MaxEmptyParas,
        near \in SeqsUpTo(AddTexts, MaxNearParas)}

InitAdd ==
    /\ \E d \in AddDocs :
          add_doc = [k \in 1..Len(d) |-> InputParagraph(d[k], k - 1)]
    /\ \E ip \in 0..Len(add_doc), back \in 0..1 :
          add_project_info =
              [insertion_point |-> ip,
               responsibilities_end |-> ip - back,
               mixed_tech_stacks |-> <<[key |-> "Python", val |-> <<"p1">>]>>,
               project_index |-> 0]
    /\ add_result = <<>>
    /\ add_pc = "call"
    /\ DistIdle
    /\ ShuffleIdle
    /\ DetectIdle
    /\ ProcessIdle
    /\ RepeatIdle
    /\ FormatIdle
    /\ CallIdle
    /\ BulkIdle

(* the whole call: lines 1101-1153 choose the format, the rest inserts *)
AddPointsCall ==
    /\ add_pc = "call"
    /\ add_result' =
          [format |-> ResolveFormat(add_doc, add_project_info),
           points_added |-> Len(Concat(DictValues(add_project_info.mixed_tech_stacks)))]
    /\ add_doc' = add_points_to_project(add_doc, add_project_info).paragraphs
    /\ add_pc' = "done"
    /\ UNCHANGED <<add_project_info, notAdd>>

NextAdd == AddPointsCall

SpecAdd == InitAdd /\ [][NextAdd]_vars

(* The bullet paragraphs of the input document and their markers. *)
InputBullets ==
    {i \in 0..(Len(Originals(add_doc)) - 1) :
        _is_bullet_point(Originals(add_doc)[i + 1].text)}

MarkerAt(i) == _extract_bullet_marker(Originals(add_doc)[i + 1].text)

WindowBullets ==
    {i \in InputBullets :
        /\ i >= add_project_info.insertion_point - 5
        /\ i < add_project_info.responsibilities_end + 5}

GlyphWindowBullets ==
    {i \in WindowBullets : MarkerAt(i) \in Range(priority_markers)}

MarkerFrequency(m) == Cardinality({i \in InputBullets : MarkerAt(i) = m})

MostFrequentMarkers ==
    {MarkerAt(i) : i \in {j \in InputBullets :
        \A k \in InputBullets : MarkerFrequency(MarkerAt(k)) <= MarkerFrequency(MarkerAt(j))}}

(* C28: the format of the new paragraphs is the descriptor of the first
   glyph bullet of the window [insertion_point - 5, responsibilities_end + 5),
   or of the first bullet of the window when it has no glyph bullet;
   with no bullet in the window there is no descriptor and the fallback
   is a most frequent bullet marker of the whole document with a tab; with
   no bullet in the document the fallback is the default glyph with a tab. *)
C28_FormatResolution ==
    add_pc = "done" =>
        LET format == add_result.format
        IN IF WindowBullets # {}
           THEN LET from == IF GlyphWindowBullets # {}
                            THEN Min(GlyphWindowBullets) ELSE Min(WindowBullets)
                IN /\ format.formatting # <<>>
                   /\ format.formatting[1].copied_from = from
                   /\ format.marker_to_use = MarkerAt(from)
           ELSE /\ format.formatting = <<>>
                /\ format.fallback_formatting.bullet_separator = "\t"
                /\ format.fallback_formatting.bullet_marker = format.marker_to_use
                /\ IF InputBullets = {}
                   THEN format.marker_to_use = U2022
                   ELSE format.marker_to_use \in MostFrequentMarkers

====
